---- MODULE Spec2Model ----
(***************************************************************************)
(* Provider routing engine of goblin-assistant:                            *)
(*   src/src/routing/router.py  (telemetry, circuit breaker, scorer,       *)
(*                               route_task)                               *)
(*   src/src/routing/invoke_provider_impl.py  (invoke_provider)            *)
(*                                                                         *)
(* Time is an integer number of milliseconds.  Floating-point scores are   *)
(* fixed-point integers in units of 1/ScoreUnit.  Strings that the code    *)
(* inspects with startswith / in are sequences of tokens.                  *)
(***************************************************************************)
EXTENDS Integers, Sequences, FiniteSets, TLC

VARIABLES now, env, METRICS, CB_STATE, COST_TRACKING, BANDWIDTH_METRICS,
          calls, issued, consec, opened_at,
          text, response, resp_chunks, fragments, gen, arrivals,
          COT_SUPPRESSION, supports_cot, payload, sent, rewrite,
          invocation,
          redis_stream, clients, store_hist,
          circuit_breaker, mcp_clock, mcp_failed, routed

vars == <<now, env, METRICS, CB_STATE, COST_TRACKING, BANDWIDTH_METRICS,
          calls, issued, consec, opened_at,
          text, response, resp_chunks, fragments, gen, arrivals,
          COT_SUPPRESSION, supports_cot, payload, sent, rewrite,
          invocation,
          redis_stream, clients, store_hist,
          circuit_breaker, mcp_clock, mcp_failed, routed>>

\* the polling store: the value Redis holds under the stream's key, the
\* store clients (each between two Redis commands or idle), and what the
\* clients have been told so far (store_hist)
storeVars == <<redis_stream, clients, store_hist>>

\* the MCP providers' circuit breakers, the clock, the run of failed provider
\* calls of the worker, and the provider route_request returned last
mcpVars == <<circuit_breaker, mcp_clock, mcp_failed, routed>>

\* one invocation of invoke_provider under an injected fault, and how it ended
faultVars == <<invocation>>

\* the chain-of-thought configuration (COT_SUPPRESSION and each provider's
\* supports_cot flag), the caller's payload object, the payloads handed to
\* providers so far (sent) and the position of the call that rewrites them
cotVars == <<COT_SUPPRESSION, supports_cot, payload, sent, rewrite>>

\* the state of one direct use of invoke_provider: the text of the response
\* body and the returned dict (text, response), and the response body still
\* to be read, the fragments yielded so far and the generator of a
\* streaming invocation (resp_chunks, fragments, gen); the number of samples
\* handed to record_latency and record_bandwidth so far (arrivals)
invokeVars == <<text, response, resp_chunks, fragments, gen, arrivals>>

\* what the actions on invokeVars leave alone besides the router's state
sideVars == <<cotVars, faultVars, storeVars, mcpVars>>

auxVars == <<invokeVars, sideVars>>

\* what the payload-rewriting actions leave alone
notCot == <<invokeVars, faultVars, storeVars, mcpVars>>

\* what a fault-injected invocation leaves alone
notFault == <<invokeVars, cotVars, storeVars, mcpVars>>

\* what the polling store's operations leave alone
notStore == <<invokeVars, cotVars, faultVars, mcpVars>>

\* what the MCP worker and provider manager leave alone
notMcp == <<invokeVars, cotVars, faultVars, storeVars>>

routerVars == <<now, env, METRICS, CB_STATE, COST_TRACKING, BANDWIDTH_METRICS,
                calls, issued, consec, opened_at>>

(* ------------------------------ bounds --------------------------------- *)
\* provider invocations issued by all route_task calls together
MaxInvocations == 5

\* largest max_retries a request is sent with
MaxRetriesBound == 2

\* longest response text handed to the garbled-output check
MaxTextLen == 10

\* content deltas generated for one streamed response
MaxContent == 2

\* places at which the transport cuts a response body into chunks
MaxSplits == 1

\* samples handed to record_latency / record_bandwidth of one provider
MaxLatencySamples == 102

MaxBandwidthSamples == 52

\* outcomes handed to record_success, and to record_fail, of one provider
MaxOutcomes == 3

\* latency samples recorded before a provider is scored
MaxScoreSamples == 3

\* the route_task calls of a run; Spec routes them one at a time
Calls == {1, 2}

(* ------------------------- program constants --------------------------- *)
BREAKER_THRESHOLD == 3

OPEN_SECONDS == 30

LATENCY_CAP == 100

BANDWIDTH_CAP == 50

MOVING_AVG_N == 8

CIRCUIT_PENALTY == 1000

BACKOFF_MS == 200

\* fixed-point unit of scores, cost_score and bandwidth_score: 1/10000
ScoreUnit == 10000

\* COST_OPTIMIZATION.get("max_budget_per_hour", 10.0), in units of 1e-7
MAX_BUDGET == 100000000

\* random.random() * 0.01 lies in [0, 0.01): the two extremes in score units
JitterChoices == {0, 99}

\* time an invocation may take, from the request to its result (ms)
LatencyChoices == {100}

\* total_tokens reported by a successful response (0: no usage reported)
TokenChoices == {0, 40}

TaskTypes == {"chat", "code"}

(* ------------------------------ strings -------------------------------- *)
None == <<"None">>

StartsWith(s, prefix) ==
    /\ Len(s) >= Len(prefix)
    /\ SubSeq(s, 1, Len(prefix)) = prefix

Contains(s, part) ==
    \E i \in 1..(Len(s) - Len(part) + 1) : SubSeq(s, i, i + Len(part) - 1) = part

PLACEHOLDER_YOUR == <<"y", "o", "u", "r", "-">>

PLACEHOLDER_SK == <<"s", "k", "-", "1", "2", "3", "4", "5", "6", "7", "8", "9", "0">>

\* values an environment variable can hold: unset, empty, the two placeholder
\* shapes, a key one character short of the sk- placeholder, a real key
LIVE_KEY == <<"s", "k", "-", "l", "i", "v", "e">>

EnvValues ==
    { None,
      << >>,
      PLACEHOLDER_YOUR \o <<"k", "e", "y">>,
      PLACEHOLDER_SK \o <<"a", "b">>,
      SubSeq(PLACEHOLDER_SK, 1, 12),
      LIVE_KEY }

\* the values the environment takes while requests are routed
RoutingEnvValues == {<< >>, LIVE_KEY}

(* ------------------------- provider registry --------------------------- *)
\* PROVIDERS = CONFIG["providers"]: a cloud provider that needs a credential,
\* a local llama.cpp server and a local ollama server that need none, and a
\* cloud search provider that accepts requests without a credential.
PidOrder == <<"openai", "llamacpp", "ollama", "grok">>

ProviderIds == {PidOrder[i] : i \in 1..Len(PidOrder)}

PROVIDERS ==
    [pid \in ProviderIds |->
        IF pid = "openai"
        THEN [capabilities |-> {"chat", "code"},
              endpoint |-> <<"https://", "api.", "openai.com">>,
              api_key_env |-> "OPENAI_API_KEY",
              priority_tier |-> 1,
              cost_score |-> 5000,
              bandwidth_score |-> 5000,
              default_timeout_ms |-> 1000]
        ELSE IF pid = "llamacpp"
        THEN [capabilities |-> {"chat", "summary"},
              endpoint |-> <<"http://", "127.0.0.1", ":8080">>,
              api_key_env |-> "",
              priority_tier |-> 1,
              cost_score |-> 5000,
              bandwidth_score |-> 5000,
              default_timeout_ms |-> 1000]
        ELSE IF pid = "ollama"
        THEN [capabilities |-> {"summary"},
              endpoint |-> <<"http://", "127.0.0.1", ":11434">>,
              api_key_env |-> "",
              priority_tier |-> 1,
              cost_score |-> 5000,
              bandwidth_score |-> 5000,
              default_timeout_ms |-> 1000]
        ELSE [capabilities |-> {"search"},
              endpoint |-> <<"https://", "api.", "grok", ".example">>,
              api_key_env |-> "",
              priority_tier |-> 1,
              cost_score |-> 5000,
              bandwidth_score |-> 5000,
              default_timeout_ms |-> 1000]]

\* the providers able to serve a task type
Supporters(task_type) == {p \in ProviderIds : task_type \in PROVIDERS[p].capabilities}

EnvNames == {PROVIDERS[p].api_key_env : p \in ProviderIds} \ {""}

getenv(name) == IF name = "" THEN None ELSE env[name]

Truthy(v) == v # None /\ v # << >>

LOOPBACK_PREFIX == <<"http://", "127.0.0.1">>

(* --------------------------- telemetry store --------------------------- *)
SumSeq(s) ==
    LET RECURSIVE Sum(_)
        Sum(i) == IF i = 0 THEN 0 ELSE s[i] + Sum(i - 1)
    IN Sum(Len(s))

LastN(s, n) == IF Len(s) <= n THEN s ELSE SubSeq(s, Len(s) - n + 1, Len(s))

\* variant: the newest sample is dropped on overflow
AppendCapped_newest(s, x, cap) ==
    LET t == Append(s, x) IN IF Len(t) > cap THEN SubSeq(t, 1, cap) ELSE t

AppendCapped(s, x, cap) ==
    LET t == Append(s, x) IN IF Len(t) > cap THEN SubSeq(t, 2, Len(t)) ELSE t

record_latency(M, pid, ms) ==
    [M EXCEPT ![pid].latencies = AppendCapped(@, ms, LATENCY_CAP)]

record_success(M, pid) == [M EXCEPT ![pid].succ = @ + 1]

\* variant: the counter is written back from its initial value
record_fail_stale(M, pid) == [M EXCEPT ![pid].fail = 1]

record_fail(M, pid) == [M EXCEPT ![pid].fail = @ + 1]

record_bandwidth(B, pid, tps) ==
    [B EXCEPT ![pid] = AppendCapped(@, tps, BANDWIDTH_CAP)]

\* cost accumulates in units of 1e-7: cost_score (1e-4) * 0.001
record_cost(C, pid, cost) == [C EXCEPT ![pid] = @ + cost]

\* moving_avg returns None (NoAvg) when there is no sample, else the mean of
\* the last n samples, here in thousandths of a millisecond
NoAvg == -1

moving_avg(latencies) ==
    IF latencies = << >> THEN NoAvg
    ELSE LET tail == LastN(latencies, MOVING_AVG_N)
         IN (SumSeq(tail) * 1000) \div Len(tail)

\* average tokens/sec in score units; neutral 0.5 when no sample
get_bandwidth_score(B, pid) ==
    IF B[pid] = << >> THEN ScoreUnit \div 2
    ELSE (SumSeq(B[pid]) * ScoreUnit) \div Len(B[pid])

(* --------------------------- circuit breaker --------------------------- *)
breaker_allows(CB, pid, t) == ~(t < CB[pid].open_until)

\* variant: the breaker opens only once the counter exceeds the threshold
breaker_record_failure_late(CB, pid, t) ==
    IF CB[pid].fails + 1 > BREAKER_THRESHOLD
    THEN [CB EXCEPT ![pid] = [fails |-> 0, open_until |-> t + OPEN_SECONDS * 1000]]
    ELSE [CB EXCEPT ![pid].fails = @ + 1]

\* variant: the breaker opens one failure early
breaker_record_failure_early(CB, pid, t) ==
    IF CB[pid].fails + 1 >= BREAKER_THRESHOLD - 1
    THEN [CB EXCEPT ![pid] = [fails |-> 0, open_until |-> t + OPEN_SECONDS * 1000]]
    ELSE [CB EXCEPT ![pid].fails = @ + 1]

breaker_record_failure(CB, pid, t) ==
    IF CB[pid].fails + 1 >= BREAKER_THRESHOLD
    THEN [CB EXCEPT ![pid] = [fails |-> 0, open_until |-> t + OPEN_SECONDS * 1000]]
    ELSE [CB EXCEPT ![pid].fails = @ + 1]

\* variant: a success also closes the breaker
breaker_record_success_closing(CB, pid) ==
    [CB EXCEPT ![pid] = [fails |-> 0, open_until |-> 0]]

breaker_record_success(CB, pid) == [CB EXCEPT ![pid].fails = 0]

(* -------------------------------- scorer -------------------------------- *)
\* SCORING_WEIGHTS default, in tenths
W_LATENCY == 4

W_COST == 3

W_RELIABILITY == 2

W_BANDWIDTH == 1

\* float("inf")
Infinity == 2000000000

\* COST_OPTIMIZATION.get("preferred_providers_under_budget", [])
PreferredUnderBudget == {}

IsLoopback(pid) == StartsWith(PROVIDERS[pid].endpoint, LOOPBACK_PREFIX)

\* lower is better; jitter is the value drawn by random.random() * 0.01
score_provider(pid, capability, prefer_local, prefer_cost, jitter, M, B, C, CB, t) ==
    LET p == PROVIDERS[pid]
        priority_score == p.priority_tier * 10 * ScoreUnit
        ma == moving_avg(M[pid].latencies)
        \* moving_avg(...) or (default_timeout_ms / 2): None and 0.0 are falsy
        lat == IF ma = NoAvg \/ ma = 0
               THEN (p.default_timeout_ms * 1000) \div 2
               ELSE ma
        latency_score == lat \div 50
        succ == M[pid].succ
        fail == M[pid].fail
        total == succ + fail
        succ_rate == IF total > 0 THEN (succ * ScoreUnit) \div total
                     ELSE (9 * ScoreUnit) \div 10
        reliability_multiplier == ScoreUnit - (succ_rate * 45) \div 100
        bandwidth_combined == (get_bandwidth_score(B, pid) + p.bandwidth_score) \div 2
        cost_over_limit == C[pid] > MAX_BUDGET
        cost_score == IF cost_over_limit /\ pid \notin PreferredUnderBudget
                      THEN p.cost_score * 2
                      ELSE p.cost_score
        total_score == priority_score
                       + (cost_score * W_COST * 5) \div 10
                       + (latency_score * W_LATENCY) \div 10
                       + (reliability_multiplier * W_RELIABILITY * 10) \div 10
                       + ((ScoreUnit - bandwidth_combined) * W_BANDWIDTH * 5) \div 10
        local == IF prefer_local /\ IsLoopback(pid)
                 THEN (total_score * 6) \div 10
                 ELSE total_score
        cost == IF prefer_cost THEN local + cost_score * 10 ELSE local
        circuit == IF ~breaker_allows(CB, pid, t)
                   THEN cost + CIRCUIT_PENALTY * ScoreUnit
                   ELSE cost
    IN IF capability \notin p.capabilities THEN Infinity ELSE circuit + jitter

\* list.sort(key=lambda x: x[0]) is stable: an element goes after every
\* element whose score is not greater
\* variant: descending order
InsertSorted_descending(sorted, x) ==
    LET k == Cardinality({i \in 1..Len(sorted) : sorted[i][1] >= x[1]})
    IN SubSeq(sorted, 1, k) \o <<x>> \o SubSeq(sorted, k + 1, Len(sorted))

InsertSorted(sorted, x) ==
    LET k == Cardinality({i \in 1..Len(sorted) : sorted[i][1] <= x[1]})
    IN SubSeq(sorted, 1, k) \o <<x>> \o SubSeq(sorted, k + 1, Len(sorted))

SortByScore(scored) ==
    LET RECURSIVE Sort(_)
        Sort(n) == IF n = 0 THEN << >> ELSE InsertSorted(Sort(n - 1), scored[n])
    IN Sort(Len(scored))

(* --------------------------- invoke_provider --------------------------- *)
\* the branch of invoke_provider a provider is dispatched to
Family(pid) ==
    LET endpoint == PROVIDERS[pid].endpoint IN
    IF pid = "llamacpp" \/ Contains(endpoint, <<"127.0.0.1", ":8080">>) THEN "llamacpp"
    ELSE IF pid = "openai" \/ Contains(endpoint, <<"openai.com">>) THEN "openai"
    ELSE IF Contains(endpoint, <<"127.0.0.1">>) \/ pid = "ollama" THEN "ollama"
    ELSE IF pid = "anthropic" THEN "anthropic"
    ELSE IF pid = "grok" \/ Contains(endpoint, <<"grok">>) THEN "grok"
    ELSE IF pid = "gemini" \/ Contains(endpoint, <<"gemini">>) THEN "gemini"
    ELSE "generic"

\* the branches that honour stream=True and return a "stream" generator; the
\* grok and gemini branches send a single-shot request whatever the flag
ReturnsStream(pid) == Family(pid) \notin {"grok", "gemini"}

\* the keys of res.get("result", {}) for a successful invocation: the token
\* usage reported by the provider lies inside result["raw"]; a streaming
\* result has no "result" at all
ResultKeys(pid, stream) ==
    IF stream /\ ReturnsStream(pid) THEN {}
    ELSE IF Family(pid) = "generic" THEN {"text"}
    ELSE {"text", "raw"}

\* the openai and anthropic branches return a missing-key failure without
\* sending a request when the key read at invocation time is falsy
MissingKey(pid, key) == Family(pid) \in {"openai", "anthropic"} /\ ~Truthy(key)

\* the llamacpp and openai branches await client.post outside any try, so a
\* transport error propagates; the other branches catch it
CanRaise(pid) == Family(pid) \in {"llamacpp", "openai"}

\* the characters of a response text: a letter, a control character of the
\* garbled list, a line feed
TextChars == {"a", "x01", "LF"}

\* garbled_chars: the C0 control characters other than tab, LF and CR
GARBLED_CHARS ==
    {"x1c", "x00", "x01", "x02", "x03", "x04", "x05", "x06", "x07", "x08",
     "x0b", "x0c", "x0e", "x0f", "x10", "x11", "x12", "x13", "x14", "x15",
     "x16", "x17", "x18", "x19", "x1a", "x1b", "x1d", "x1e", "x1f"}

\* garbled_ratio > 0.1, with garbled_ratio = count / len(text), 0 for ""
garbled(t) ==
    LET count == Cardinality({i \in 1..Len(t) : t[i] \in GARBLED_CHARS})
    IN t # << >> /\ count * 10 > Len(t)

\* the dict a single-shot invocation of a local provider returns when the
\* server answers with a status below 400 and a body whose text is t: the
\* llamacpp branch checks the text, the ollama branch returns it as it is
invoke_nonstream(pid, t) ==
    IF Family(pid) = "llamacpp" /\ garbled(t)
    THEN [ok |-> FALSE, pid |-> pid, error |-> "llamacpp-garbled-output",
          text |-> << >>]
    ELSE [ok |-> TRUE, pid |-> pid, error |-> "", text |-> t]

(* ------------------------- streaming responses ------------------------- *)
\* A response body is a sequence of byte groups: the "data:" prefix of an
\* SSE line, the JSON object of a content delta c written as its opening
\* part "{c" and its closing brace, the [DONE] sentinel, and the blank line
\* "\n\n" (NLNL) that ends an event.
Deltas == {"a", "b"}

JsonOpen(c) == IF c = "a" THEN "{a" ELSE "{b"

ContentEvent(c) == <<"data:", JsonOpen(c), "}", "NLNL">>

DoneEvent == <<"data:", "[DONE]", "NLNL">>

\* the body a well-behaved server streams for the generated content
StreamBody(content, with_done) ==
    LET RECURSIVE Events(_)
        Events(i) == IF i > Len(content) THEN << >>
                     ELSE ContentEvent(content[i]) \o Events(i + 1)
    IN Events(1) \o (IF with_done THEN DoneEvent ELSE << >>)

\* resp.aiter_bytes(): the body cut after the positions in splits
Chunks(bytes, splits) ==
    LET RECURSIVE Cut(_, _)
        Cut(start, k) ==
            IF k > Len(bytes)
            THEN (IF start <= Len(bytes) THEN <<SubSeq(bytes, start, Len(bytes))>>
                  ELSE << >>)
            ELSE IF k \in splits
            THEN <<SubSeq(bytes, start, k)>> \o Cut(k + 1, k + 1)
            ELSE Cut(start, k + 1)
    IN Cut(1, 1)

\* chunk.split(b"\n\n"), empty parts skipped
SplitParts(chunk) ==
    LET RECURSIVE Go(_, _, _)
        Go(i, cur, acc) ==
            IF i > Len(chunk)
            THEN (IF cur = << >> THEN acc ELSE Append(acc, cur))
            ELSE IF chunk[i] = "NLNL"
            THEN Go(i + 1, << >>, IF cur = << >> THEN acc ELSE Append(acc, cur))
            ELSE Go(i + 1, Append(cur, chunk[i]), acc)
    IN Go(1, << >>, << >>)

\* _parse_sse_line: the text after "data:", or the line itself
ParseSseLine(line) == IF line[1] = "data:" THEN Tail(line) ELSE line

\* what _stream_sse_response yields for one chunk
StreamSseChunk(chunk) ==
    LET parts == SplitParts(chunk)
    IN [i \in 1..Len(parts) |-> ParseSseLine(parts[i])]

\* json.loads(data) succeeds
IsJson(d) == Len(d) = 2 /\ d[1] \in {JsonOpen(c) : c \in Deltas} /\ d[2] = "}"

DeltaContent(d) == IF d[1] = "{a" THEN "a" ELSE "b"

NoFragment == [kind |-> "none", val |-> << >>]

\* the branches of invoke_provider that build a generator
StreamFamilies == {"llamacpp", "openai", "ollama", "anthropic", "generic"}

\* variant: no generator stops at the sentinel
StopsAtSentinel_never(family) == FALSE

\* only the openai generator breaks on data.strip() == "[DONE]"
StopsAtSentinel(family) == family = "openai"

\* what gen() yields for one data string: the llamacpp generator yields the
\* delta content and drops what it cannot parse, the openai and ollama
\* generators yield the parsed object or else the raw string, the anthropic
\* and generic generators yield the raw string
GenYield(family, d) ==
    IF family = "llamacpp"
    THEN (IF IsJson(d) THEN [kind |-> "text", val |-> <<DeltaContent(d)>>]
          ELSE NoFragment)
    ELSE IF family \in {"openai", "ollama"}
    THEN (IF IsJson(d) THEN [kind |-> "object", val |-> <<DeltaContent(d)>>]
          ELSE [kind |-> "raw", val |-> d])
    ELSE [kind |-> "raw", val |-> d]

\* gen() run over the data strings of one chunk: the fragments yielded, the
\* number of fragments yielded when the sentinel arrived (-1: not arrived)
\* and whether the generator has left its loop
RunGen(family, datas, frags0, done0) ==
    LET RECURSIVE Go(_, _, _)
        Go(i, frags, done_at) ==
            IF i > Len(datas)
            THEN [fragments |-> frags, done_at |-> done_at, stopped |-> FALSE]
            ELSE LET d == datas[i]
                     seen == IF done_at < 0 /\ d = <<"[DONE]">>
                             THEN Len(frags) ELSE done_at
                     f == GenYield(family, d)
                 IN IF StopsAtSentinel(family) /\ d = <<"[DONE]">>
                    THEN [fragments |-> frags, done_at |-> seen, stopped |-> TRUE]
                    ELSE Go(i + 1,
                            IF f = NoFragment THEN frags ELSE Append(frags, f),
                            seen)
    IN Go(1, frags0, done0)

(* ------------------------------ route_task ------------------------------ *)
NoErr == << >>

NoResult ==
    [ok |-> FALSE, provider |-> "", error |-> NoErr, stream |-> FALSE, tokens |-> 0]

IdleCall ==
    [pc |-> "idle", task_type |-> "", max_retries |-> 0,
     candidates |-> << >>, scored |-> << >>, idx |-> 0, attempt |-> 0,
     t0 |-> 0, wake |-> 0, last_err |-> NoErr, fb |-> 0, missing |-> FALSE,
     log |-> << >>, fails0 |-> << >>, stream |-> FALSE, metrics0 |-> << >>,
     result |-> NoResult]

\* 1 when the step that produced record r issued an invocation
IssuedBy(r) == IF r.pc \in {"awaiting", "fb_awaiting"} THEN 1 ELSE 0

\* the preference flags (prefer_local, prefer_cost) requests are sent with
PreferChoices == {<<FALSE, FALSE>>, <<TRUE, TRUE>>}

\* variant: the sk-1234567890 placeholder is taken for a key
has_valid_api_key_no_sk(api_key_value) ==
    /\ Truthy(api_key_value)
    /\ ~StartsWith(api_key_value, PLACEHOLDER_YOUR)

\* api_key_value non-empty and not a placeholder
has_valid_api_key(api_key_value) ==
    /\ Truthy(api_key_value)
    /\ ~StartsWith(api_key_value, PLACEHOLDER_YOUR)
    /\ ~StartsWith(api_key_value, PLACEHOLDER_SK)

\* variant: the credential is not looked at
PassesFilter_capability_only(pid, task_type, e) ==
    task_type \in PROVIDERS[pid].capabilities

\* the filter loop of route_task: a provider is skipped when it lacks the
\* capability, or when it names a credential whose value is not valid
PassesFilter(pid, task_type, e) ==
    LET p == PROVIDERS[pid]
        api_key_env == p.api_key_env
        api_key_value == IF api_key_env # "" THEN e[api_key_env] ELSE None
    IN /\ task_type \in p.capabilities
       /\ ~(api_key_env # "" /\ ~has_valid_api_key(api_key_value))

FilterCandidates(task_type, e) ==
    SelectSeq(PidOrder, LAMBDA pid : PassesFilter(pid, task_type, e))

\* the scoring loop of route_task: a candidate whose breaker does not allow
\* it is skipped, the others are scored
\* variant: no candidate is skipped
KeepForRanking_all(CB, pid, t) == TRUE

KeepForRanking(CB, pid, t) == breaker_allows(CB, pid, t)

ScoreCandidates(candidates, task_type, prefer_local, prefer_cost, jit, t) ==
    LET kept == SelectSeq(candidates, LAMBDA pid : KeepForRanking(CB_STATE, pid, t))
    IN [i \in 1..Len(kept) |->
          <<score_provider(kept[i], task_type, prefer_local, prefer_cost,
                           jit[kept[i]], METRICS, BANDWIDTH_METRICS,
                           COST_TRACKING, CB_STATE, t),
            kept[i]>>]

\* variant: range(max_retries)
MoreAttempts_short(attempt, max_retries) == attempt + 1 < max_retries

\* for attempt in range(max_retries + 1): is there an iteration after `attempt`
MoreAttempts(attempt, max_retries) == attempt + 1 < max_retries + 1

\* await invoke_provider(...): the request is issued at time t; the key is
\* read from the environment before the request is sent
Issue(r, pid, phase, t) ==
    [r EXCEPT !.pc = IF phase = "ranked" THEN "awaiting" ELSE "fb_awaiting",
              !.t0 = t,
              !.missing = MissingKey(pid, getenv(PROVIDERS[pid].api_key_env)),
              !.log = Append(@, [pid |-> pid, phase |-> phase,
                                 open |-> (t < CB_STATE[pid].open_until),
                                 res |-> "pending"])]

\* route_task returns: its locals are gone, the envelope remains
Finish(r, res) ==
    [IdleCall EXCEPT !.pc = "done", !.task_type = r.task_type,
                     !.max_retries = r.max_retries,
                     !.candidates = r.candidates, !.result = res]

\* variant: the endpoint is not looked at
FallbackTarget_any(pid, task_type) == task_type \in PROVIDERS[pid].capabilities

FallbackTarget(pid, task_type) ==
    IsLoopback(pid) /\ task_type \in PROVIDERS[pid].capabilities

NextFallback(r, k, t) ==
    LET rest == {j \in k..Len(PidOrder) : FallbackTarget(PidOrder[j], r.task_type)}
    IN IF rest = {}
       THEN Finish(r, [ok |-> FALSE, provider |-> "", stream |-> FALSE, tokens |-> 0,
                       error |-> IF r.last_err # NoErr THEN r.last_err
                                 ELSE <<"", "no-provider-available">>])
       ELSE LET j == CHOOSE x \in rest : \A y \in rest : x <= y
            IN Issue([r EXCEPT !.fb = j], PidOrder[j], "fallback", t)

\* what the ranked loop does after the backoff sleep of a failed attempt
NextRanked(r, t) ==
    IF MoreAttempts(r.attempt, r.max_retries)
    THEN Issue([r EXCEPT !.attempt = @ + 1], r.scored[r.idx][2], "ranked", t)
    ELSE IF r.idx < Len(r.scored)
    THEN Issue([r EXCEPT !.idx = @ + 1, !.attempt = 0],
               r.scored[r.idx + 1][2], "ranked", t)
    ELSE NextFallback(r, 1, t)

SetRes(log, res) == [log EXCEPT ![Len(log)].res = res]

CurPid(r) == r.scored[r.idx][2]

(* ------------------------------- actions -------------------------------- *)
NoResponse == [ok |-> FALSE, pid |-> "", error |-> "", text |-> << >>]

NoGen == [state |-> "none", family |-> "", content |-> << >>, done_at |-> -1]

NoInvocation ==
    [family |-> "", stream |-> FALSE, fault |-> "none", has_key |-> FALSE,
     raised |-> FALSE, ok |-> FALSE, error |-> << >>]

\* the key of the stream is not in Redis
NoKey ==
    [exists |-> FALSE, status |-> "", chunks |-> << >>, total_chunks |-> 0,
     is_complete |-> FALSE]

NoStoreResult ==
    [op |-> "none", ok |-> FALSE, chunks |-> << >>, total_chunks |-> 0,
     last_sequence |-> -1, is_complete |-> FALSE, status |-> ""]

\* a client between operations: stream_data is json.loads(stream_json) of
\* the operation in progress; last_sequence and received are what a poller
\* keeps from the results of its polls
IdleClient ==
    [pc |-> "idle", stream_data |-> NoKey, chunk |-> 0, k |-> -1, follow |-> FALSE,
     result |-> NoStoreResult, last_sequence |-> -1, received |-> << >>]

StoreClients == {1, 2}

\* the clients that produce the stream, the client that polls it
Producers == {1, 2}

Pollers == {2}

InitStore ==
    /\ redis_stream = NoKey
    /\ clients = [c \in StoreClients |-> IdleClient]
    /\ store_hist = [next_chunk |-> 1, acked |-> {}, completed |-> FALSE]

\* the providers of the MCP registry
McpProviders == {"openai-gpt4", "openai-gpt35", "local-llama"}

\* CircuitBreaker.__init__; last_failure_time None is -1
NewBreaker == [state |-> "CLOSED", failure_count |-> 0, last_failure_time |-> -1]

InitMcp ==
    /\ circuit_breaker = [p \in McpProviders |-> NewBreaker]
    /\ mcp_clock = 0
    /\ mcp_failed = [p \in McpProviders |-> 0]
    /\ routed = "unrouted"

\* nothing has been invoked with a fault, stored or routed by the MCP worker
InitSide ==
    /\ invocation = NoInvocation
    /\ InitStore
    /\ InitMcp

NoPayload == [form |-> "prompt", role |-> "user", content |-> << >>]

IdleRewrite == [pc |-> "idle", task_type |-> "", candidates |-> << >>, idx |-> 0, fb |-> 0]

\* nothing is routed with a payload yet
InitPayload ==
    /\ payload = NoPayload
    /\ sent = << >>
    /\ rewrite = IdleRewrite

\* CONFIG without a chain_of_thought_suppression section, and no provider
\* entry with a supports_cot key (it defaults to True)
InitNoCot ==
    /\ COT_SUPPRESSION = [suppress_for |-> {}, force_for |-> {}, provider_rules |-> {}]
    /\ supports_cot = [p \in ProviderIds |-> TRUE]
    /\ InitPayload

InitCore ==
    /\ text = << >>
    /\ response = NoResponse
    /\ resp_chunks = << >>
    /\ fragments = << >>
    /\ gen = NoGen
    /\ arrivals = [latency |-> 0, bandwidth |-> 0]
    /\ now = 0
    /\ METRICS = [p \in ProviderIds |-> [latencies |-> << >>, succ |-> 0, fail |-> 0]]
    /\ CB_STATE = [p \in ProviderIds |-> [fails |-> 0, open_until |-> 0]]
    /\ COST_TRACKING = [p \in ProviderIds |-> 0]
    /\ BANDWIDTH_METRICS = [p \in ProviderIds |-> << >>]
    /\ calls = [c \in Calls |-> IdleCall]
    /\ issued = 0
    /\ consec = [p \in ProviderIds |-> 0]
    /\ opened_at = [p \in ProviderIds |-> -1]

InitShared ==
    /\ InitCore
    /\ InitNoCot
    /\ InitSide

Init ==
    /\ InitShared
    /\ env \in [EnvNames -> RoutingEnvValues]

\* route_task up to its first suspension: filter, rank, first invocation
Start(c, task_type, max_retries, prefer_local, prefer_cost, jit, stream) ==
    /\ calls[c].pc = "idle"
    /\ \A d \in Calls : d < c => calls[d].pc # "idle"
    /\ LET candidates == FilterCandidates(task_type, env)
           scored == SortByScore(ScoreCandidates(candidates, task_type,
                                                 prefer_local, prefer_cost, jit, now))
           r == [calls[c] EXCEPT !.task_type = task_type,
                                 !.max_retries = max_retries,
                                 !.candidates = candidates,
                                 !.scored = scored,
                                 !.fails0 = [p \in ProviderIds |-> CB_STATE[p].fails],
                                 !.stream = stream,
                                 !.metrics0 = [p \in ProviderIds |->
                                                 [succ |-> METRICS[p].succ,
                                                  fail |-> METRICS[p].fail]]]
           r2 == IF candidates = << >>
                 THEN Finish(r, [ok |-> FALSE, provider |-> "", stream |-> FALSE, tokens |-> 0,
                                 error |-> <<"", "no-providers-for-capability">>])
                 ELSE IF scored = << >>
                 THEN Finish(r, [ok |-> FALSE, provider |-> "", stream |-> FALSE, tokens |-> 0,
                                 error |-> <<"", "all-circuit-open">>])
                 ELSE Issue([r EXCEPT !.idx = 1, !.attempt = 0],
                            scored[1][2], "ranked", now)
       IN /\ calls' = [calls EXCEPT ![c] = r2]
          /\ issued' = issued + IssuedBy(r2)
          /\ issued' <= MaxInvocations
    /\ UNCHANGED <<auxVars, now, env, METRICS, CB_STATE, COST_TRACKING, BANDWIDTH_METRICS,
                   consec, opened_at>>

\* history of the breaker: the run of failures since the last success and
\* the time of the last opening
NoteFailure(pid, CB2, t) ==
    /\ consec' = [consec EXCEPT ![pid] = @ + 1]
    /\ opened_at' = [opened_at EXCEPT ![pid] =
                        IF CB2[pid].open_until # CB_STATE[pid].open_until
                        THEN t ELSE @]

\* the clock may move to t when no backoff sleep ends before t
CanAdvanceTo(t) == \A d \in Calls : calls[d].pc = "sleeping" => calls[d].wake >= t

\* the time at which an invocation issued at t0 and taking lat ms returns
ReturnTime(t0, lat) == IF now < t0 + lat THEN t0 + lat ELSE now

\* a ranked invocation returns ok:true
ReturnOk(c, tokens, lat) ==
    LET r == calls[c]
        pid == CurPid(r)
        t == ReturnTime(r.t0, lat)
        took_ms == t - r.t0
    IN /\ r.pc = "awaiting"
       /\ ~r.missing
       /\ CanAdvanceTo(t)
       /\ now' = t
       /\ METRICS' = record_success(record_latency(METRICS, pid, took_ms), pid)
       /\ COST_TRACKING' = record_cost(COST_TRACKING, pid, PROVIDERS[pid].cost_score)
       /\ CB_STATE' = breaker_record_success(CB_STATE, pid)
       /\ BANDWIDTH_METRICS' =
            IF "usage" \in ResultKeys(pid, r.stream) /\ tokens > 0 /\ took_ms > 0
            THEN record_bandwidth(BANDWIDTH_METRICS, pid, (tokens * 1000) \div took_ms)
            ELSE BANDWIDTH_METRICS
       /\ calls' = [calls EXCEPT ![c] =
            Finish(r, [ok |-> TRUE, provider |-> pid, error |-> NoErr,
                       stream |-> (r.stream /\ ReturnsStream(pid)),
                       tokens |-> tokens])]
       /\ consec' = [consec EXCEPT ![pid] = 0]
       /\ UNCHANGED <<auxVars, issued, env, opened_at>>

\* a ranked invocation returns ok:false
ReturnFail(c, lat) ==
    LET r == calls[c]
        pid == CurPid(r)
        t == IF r.missing THEN now ELSE ReturnTime(r.t0, lat)
        took_ms == t - r.t0
        err == <<pid, IF r.missing THEN "missing-key" ELSE "status">>
        CB2 == breaker_record_failure(CB_STATE, pid, t)
    IN /\ r.pc = "awaiting"
       /\ CanAdvanceTo(t)
       /\ now' = t
       /\ METRICS' = record_fail(record_latency(METRICS, pid, took_ms), pid)
       /\ COST_TRACKING' = record_cost(COST_TRACKING, pid, PROVIDERS[pid].cost_score)
       /\ CB_STATE' = CB2
       /\ NoteFailure(pid, CB2, t)
       /\ calls' = [calls EXCEPT ![c] =
            [r EXCEPT !.pc = "sleeping", !.last_err = err,
                      !.wake = t + BACKOFF_MS * (r.attempt + 1),
                      !.log = SetRes(@, IF r.missing THEN "missing-key" ELSE "fail")]]
       /\ UNCHANGED <<auxVars, issued, env, BANDWIDTH_METRICS>>

\* a ranked invocation raises: the except branch
Raise(c, lat) ==
    LET r == calls[c]
        pid == CurPid(r)
        t == ReturnTime(r.t0, lat)
        CB2 == breaker_record_failure(CB_STATE, pid, t)
    IN /\ r.pc = "awaiting"
       /\ ~r.missing
       /\ CanRaise(pid)
       /\ CanAdvanceTo(t)
       /\ now' = t
       /\ METRICS' = record_fail(METRICS, pid)
       /\ CB_STATE' = CB2
       /\ NoteFailure(pid, CB2, t)
       /\ calls' = [calls EXCEPT ![c] =
            [r EXCEPT !.pc = "sleeping", !.last_err = <<pid, "exception">>,
                      !.wake = t + BACKOFF_MS * (r.attempt + 1),
                      !.log = SetRes(@, "raise")]]
       /\ UNCHANGED <<auxVars, issued, env, COST_TRACKING, BANDWIDTH_METRICS>>

\* the backoff sleep ends: next attempt, next candidate, or local fallback
Wake(c) ==
    LET r == calls[c]
        t == IF now < r.wake THEN r.wake ELSE now
    IN /\ r.pc = "sleeping"
       /\ CanAdvanceTo(t)
       /\ now' = t
       /\ calls' = [calls EXCEPT ![c] = NextRanked(r, t)]
       /\ issued' = issued + IssuedBy(calls'[c])
       /\ issued' <= MaxInvocations
       /\ UNCHANGED <<auxVars, env, METRICS, CB_STATE, COST_TRACKING, BANDWIDTH_METRICS,
                      consec, opened_at>>

\* a fallback invocation returns ok:true
FbReturnOk(c, lat) ==
    LET r == calls[c]
        pid == PidOrder[r.fb]
        t == ReturnTime(r.t0, lat)
    IN /\ r.pc = "fb_awaiting"
       /\ ~r.missing
       /\ CanAdvanceTo(t)
       /\ now' = t
       /\ calls' = [calls EXCEPT ![c] =
            Finish(r, [ok |-> TRUE, provider |-> pid, error |-> NoErr,
                       stream |-> (r.stream /\ ReturnsStream(pid)),
                       tokens |-> 0])]
       /\ UNCHANGED <<auxVars, issued, env, METRICS, CB_STATE, COST_TRACKING, BANDWIDTH_METRICS,
                      consec, opened_at>>

\* a fallback invocation returns ok:false: the loop goes on
FbReturnFail(c, lat) ==
    LET r == calls[c]
        t == IF r.missing THEN now ELSE ReturnTime(r.t0, lat)
    IN /\ r.pc = "fb_awaiting"
       /\ CanAdvanceTo(t)
       /\ now' = t
       /\ calls' = [calls EXCEPT ![c] =
            NextFallback([r EXCEPT !.log = SetRes(@, "fail")], r.fb + 1, t)]
       /\ issued' = issued + IssuedBy(calls'[c])
       /\ issued' <= MaxInvocations
       /\ UNCHANGED <<auxVars, env, METRICS, CB_STATE, COST_TRACKING, BANDWIDTH_METRICS,
                      consec, opened_at>>

\* a fallback invocation raises: nothing catches it
FbRaise(c, lat) ==
    LET r == calls[c]
        pid == PidOrder[r.fb]
        t == ReturnTime(r.t0, lat)
    IN /\ r.pc = "fb_awaiting"
       /\ ~r.missing
       /\ CanRaise(pid)
       /\ CanAdvanceTo(t)
       /\ now' = t
       /\ calls' = [calls EXCEPT ![c] =
            [IdleCall EXCEPT !.pc = "raised", !.task_type = r.task_type,
                             !.max_retries = r.max_retries]]
       /\ UNCHANGED <<auxVars, issued, env, METRICS, CB_STATE, COST_TRACKING, BANDWIDTH_METRICS,
                      consec, opened_at>>

\* no route_task call is between its start and its return
Quiescent == \A c \in Calls : calls[c].pc \in {"idle", "done", "raised"}

\* no request is routed until the cooldown of an open breaker has elapsed
IdleWait ==
    /\ Quiescent
    /\ \E p \in ProviderIds : now < CB_STATE[p].open_until
    /\ now' = now + OPEN_SECONDS * 1000
    /\ UNCHANGED <<auxVars, issued, env, METRICS, CB_STATE, COST_TRACKING, BANDWIDTH_METRICS,
                   calls, consec, opened_at>>

\* a credential is rotated or removed in the environment
SetEnv(name, v) ==
    /\ env[name] # v
    /\ env' = [env EXCEPT ![name] = v]
    /\ UNCHANGED <<auxVars, now, METRICS, CB_STATE, COST_TRACKING, BANDWIDTH_METRICS,
                   calls, issued, consec, opened_at>>

\* a request arrives while no other is being routed
StartAlone(c, task_type, max_retries, prefer_local, prefer_cost, jit, stream) ==
    /\ Quiescent
    /\ Start(c, task_type, max_retries, prefer_local, prefer_cost, jit, stream)

\* requests are routed one after the other
Next ==
    \/ \E c \in Calls, task_type \in TaskTypes, max_retries \in 0..MaxRetriesBound,
          prefer \in PreferChoices :
          \E jit \in [Supporters(task_type) -> JitterChoices] :
            StartAlone(c, task_type, max_retries, prefer[1], prefer[2], jit, FALSE)
    \/ \E c \in Calls, tokens \in TokenChoices, lat \in LatencyChoices :
            ReturnOk(c, tokens, lat)
    \/ \E c \in Calls, lat \in LatencyChoices : ReturnFail(c, lat)
    \/ \E c \in Calls, lat \in LatencyChoices : Raise(c, lat)
    \/ \E c \in Calls : Wake(c)
    \/ \E c \in Calls, lat \in LatencyChoices : FbReturnOk(c, lat)
    \/ \E c \in Calls, lat \in LatencyChoices : FbReturnFail(c, lat)
    \/ \E c \in Calls, lat \in LatencyChoices : FbRaise(c, lat)
    \/ IdleWait
    \/ \E name \in EnvNames, v \in RoutingEnvValues : SetEnv(name, v)

Spec == Init /\ [][Next]_vars

(* the filter and ranking step alone, over every shape of credential value *)
InitFilter ==
    /\ InitShared
    /\ env \in [EnvNames -> EnvValues]

NextFilter ==
    \/ \E c \in Calls, task_type \in TaskTypes, max_retries \in 0..MaxRetriesBound,
          prefer \in PreferChoices :
          \E jit \in [Supporters(task_type) -> JitterChoices] :
            Start(c, task_type, max_retries, prefer[1], prefer[2], jit, FALSE)
    \/ \E name \in EnvNames, v \in EnvValues : SetEnv(name, v)

SpecFilter == InitFilter /\ [][NextFilter]_vars

(* requests for task types that several local providers serve, with a      *)
(* valid credential in the environment throughout                           *)
FallbackTaskTypes == {"chat", "summary"}

InitFallback ==
    /\ InitShared
    /\ env = [name \in EnvNames |-> LIVE_KEY]

NextWithFallback ==
    \/ \E c \in Calls, task_type \in FallbackTaskTypes,
          max_retries \in 0..MaxRetriesBound :
          \E jit \in [Supporters(task_type) -> JitterChoices] :
            StartAlone(c, task_type, max_retries, FALSE, FALSE, jit, FALSE)
    \/ \E c \in Calls, tokens \in TokenChoices, lat \in LatencyChoices :
            ReturnOk(c, tokens, lat)
    \/ \E c \in Calls, lat \in LatencyChoices : ReturnFail(c, lat)
    \/ \E c \in Calls, lat \in LatencyChoices : Raise(c, lat)
    \/ \E c \in Calls : Wake(c)
    \/ \E c \in Calls, lat \in LatencyChoices : FbReturnOk(c, lat)
    \/ \E c \in Calls, lat \in LatencyChoices : FbReturnFail(c, lat)
    \/ \E c \in Calls, lat \in LatencyChoices : FbRaise(c, lat)

SpecFallback == InitFallback /\ [][NextWithFallback]_vars

(* requests sent with and without stream=True, for a task served by the    *)
(* chat providers and for one served by the search provider alone           *)
StreamTaskTypes == {"chat", "search"}

NextStreaming ==
    \/ \E c \in Calls, task_type \in StreamTaskTypes,
          max_retries \in 0..MaxRetriesBound, stream \in BOOLEAN :
          \E jit \in [Supporters(task_type) -> JitterChoices] :
            StartAlone(c, task_type, max_retries, FALSE, FALSE, jit, stream)
    \/ \E c \in Calls, tokens \in TokenChoices, lat \in LatencyChoices :
            ReturnOk(c, tokens, lat)
    \/ \E c \in Calls, lat \in LatencyChoices : ReturnFail(c, lat)
    \/ \E c \in Calls, lat \in LatencyChoices : Raise(c, lat)
    \/ \E c \in Calls : Wake(c)
    \/ \E c \in Calls, lat \in LatencyChoices : FbReturnOk(c, lat)
    \/ \E c \in Calls, lat \in LatencyChoices : FbReturnFail(c, lat)
    \/ \E c \in Calls, lat \in LatencyChoices : FbRaise(c, lat)

SpecStreaming == InitFallback /\ [][NextStreaming]_vars

(* invoke_provider called directly, single-shot, on a local provider whose *)
(* server answers with a text of any content                                *)
LocalPids == {p \in ProviderIds : IsLoopback(p)}

\* the server's answer grows by one character
BodyChar(ch) ==
    /\ response = NoResponse
    /\ Len(text) < MaxTextLen
    /\ text' = Append(text, ch)
    /\ UNCHANGED <<routerVars, response, resp_chunks, fragments, gen, arrivals, sideVars>>

\* await invoke_provider(pid, model, payload, timeout, stream=False)
InvokeNonStream(pid) ==
    /\ response = NoResponse
    /\ response' = invoke_nonstream(pid, text)
    /\ UNCHANGED <<routerVars, text, resp_chunks, fragments, gen, arrivals, sideVars>>

InitGarbled ==
    /\ InitShared
    /\ env = [name \in EnvNames |-> LIVE_KEY]

NextGarbled ==
    \/ \E ch \in TextChars : BodyChar(ch)
    \/ \E pid \in LocalPids : InvokeNonStream(pid)

SpecGarbled == InitGarbled /\ [][NextGarbled]_vars

(* the telemetry operations called directly on one provider               *)
TelemetryPids == {"openai"}

\* latencies (ms) recorded before scoring
ScoreLatencies == {0, 100, 400}

RecordLatency(pid, ms, limit) ==
    /\ arrivals.latency < limit
    /\ arrivals' = [arrivals EXCEPT !.latency = @ + 1]
    /\ METRICS' = record_latency(METRICS, pid, ms)
    /\ UNCHANGED <<now, env, CB_STATE, COST_TRACKING, BANDWIDTH_METRICS,
                   calls, issued, consec, opened_at,
                   text, response, resp_chunks, fragments, gen, sideVars>>

RecordBandwidth(pid, tps, limit) ==
    /\ arrivals.bandwidth < limit
    /\ arrivals' = [arrivals EXCEPT !.bandwidth = @ + 1]
    /\ BANDWIDTH_METRICS' = record_bandwidth(BANDWIDTH_METRICS, pid, tps)
    /\ UNCHANGED <<now, env, METRICS, CB_STATE, COST_TRACKING,
                   calls, issued, consec, opened_at,
                   text, response, resp_chunks, fragments, gen, sideVars>>

RecordSuccess(pid) ==
    /\ METRICS[pid].succ < MaxOutcomes
    /\ METRICS' = record_success(METRICS, pid)
    /\ UNCHANGED <<now, env, CB_STATE, COST_TRACKING, BANDWIDTH_METRICS,
                   calls, issued, consec, opened_at, auxVars>>

RecordFail(pid) ==
    /\ METRICS[pid].fail < MaxOutcomes
    /\ METRICS' = record_fail(METRICS, pid)
    /\ UNCHANGED <<now, env, CB_STATE, COST_TRACKING, BANDWIDTH_METRICS,
                   calls, issued, consec, opened_at, auxVars>>

InitTelemetry ==
    /\ InitShared
    /\ env = [name \in EnvNames |-> LIVE_KEY]

\* every sample carries its arrival number
NextTelemetry ==
    \/ \E pid \in TelemetryPids :
            RecordLatency(pid, arrivals.latency + 1, MaxLatencySamples)
    \/ \E pid \in TelemetryPids :
            RecordBandwidth(pid, arrivals.bandwidth + 1, MaxBandwidthSamples)
    \/ \E pid \in TelemetryPids : RecordSuccess(pid)
    \/ \E pid \in TelemetryPids : RecordFail(pid)

SpecTelemetry == InitTelemetry /\ [][NextTelemetry]_vars

\* a few latencies and outcomes are recorded, the provider is scored after
\* each
NextScore ==
    \/ \E pid \in TelemetryPids, ms \in ScoreLatencies :
            RecordLatency(pid, ms, MaxScoreSamples)
    \/ \E pid \in TelemetryPids : RecordSuccess(pid)
    \/ \E pid \in TelemetryPids : RecordFail(pid)

SpecScore == InitTelemetry /\ [][NextScore]_vars

(* invoke_provider called directly with stream=True: the server answers    *)
(* with a status below 400 and streams a body, the consumer drains the      *)
(* returned generator                                                       *)
ContentChoices ==
    UNION {[1..n -> Deltas] : n \in 0..MaxContent}

\* invoke_provider(..., stream=True) returns {"ok": True, "stream": gen()}
OpenStream(family, content, with_done, splits) ==
    /\ gen.state = "none"
    /\ resp_chunks' = Chunks(StreamBody(content, with_done), splits)
    /\ fragments' = << >>
    /\ gen' = [state |-> "open", family |-> family, content |-> content,
               done_at |-> -1]
    /\ UNCHANGED <<routerVars, text, response, arrivals, sideVars>>

\* the consumer asks for more: the generator reads the next chunk
ReadChunk ==
    /\ gen.state = "open"
    /\ resp_chunks # << >>
    /\ LET run == RunGen(gen.family, StreamSseChunk(Head(resp_chunks)),
                         fragments, gen.done_at)
       IN /\ fragments' = run.fragments
          /\ gen' = [gen EXCEPT !.done_at = run.done_at,
                                !.state = IF run.stopped THEN "ended" ELSE "open"]
    /\ resp_chunks' = Tail(resp_chunks)
    /\ UNCHANGED <<routerVars, text, response, arrivals, sideVars>>

\* the body is exhausted: the generator returns
EndOfBody ==
    /\ gen.state = "open"
    /\ resp_chunks = << >>
    /\ gen' = [gen EXCEPT !.state = "ended"]
    /\ UNCHANGED <<routerVars, text, response, arrivals, resp_chunks, fragments, sideVars>>

InitStream ==
    /\ InitShared
    /\ env = [name \in EnvNames |-> LIVE_KEY]

NextStream ==
    \/ \E family \in StreamFamilies, content \in ContentChoices,
          with_done \in BOOLEAN :
          \E splits \in SUBSET (1..(Len(StreamBody(content, with_done)) - 1)) :
            /\ Cardinality(splits) <= MaxSplits
            /\ OpenStream(family, content, with_done, splits)
    \/ ReadChunk
    \/ EndOfBody

SpecStream == InitStream /\ [][NextStream]_vars

\* the consumer keeps draining the generator
SpecStreamFair == SpecStream /\ WF_vars(ReadChunk) /\ WF_vars(EndOfBody)

(* ------------------------------ properties ------------------------------ *)
InFlightPcs == {"awaiting", "sleeping", "fb_awaiting"}

InFlight(c) == calls[c].pc \in InFlightPcs

Range(seq) == {seq[i] : i \in 1..Len(seq)}

RankedPids(r) == [i \in 1..Len(r.scored) |-> r.scored[i][2]]

\* positions of the log holding invocations of the ranked attempt loop
RankedPositions(r) == {n \in 1..Len(r.log) : r.log[n].phase = "ranked"}

\* the call c has just been started by this step
Started(c) == calls[c].pc = "idle" /\ calls'[c].pc # "idle"

(* C1: a ranked candidate whose invocations all fail is invoked exactly     *)
(* max_retries + 1 times before the next-ranked candidate is invoked: the   *)
(* ranked invocations of a call form blocks of max_retries + 1 invocations  *)
(* of one candidate, in ranked order, and only the last may be unfailed.    *)
C1_RetryBound ==
    \A c \in Calls : InFlight(c) =>
        LET r == calls[c]
            k == Cardinality(RankedPositions(r))
        IN /\ RankedPositions(r) = 1..k
           /\ \A n \in 1..k :
                /\ (n - 1) \div (r.max_retries + 1) + 1 <= Len(r.scored)
                /\ r.log[n].pid = r.scored[(n - 1) \div (r.max_retries + 1) + 1][2]
                /\ n < k => r.log[n].res \in {"fail", "raise", "missing-key"}
           /\ r.pc = "fb_awaiting" => k = Len(r.scored) * (r.max_retries + 1)

C1_Witness ==
    \E c \in Calls :
        /\ calls[c].pc = "awaiting"
        /\ calls[c].max_retries = 2
        /\ calls[c].idx = 2
        /\ Len(calls[c].log) = 4
        /\ CB_STATE[calls[c].scored[1][2]].open_until > now

C2_RankedOrderState ==
    \A c \in Calls : InFlight(c) =>
        LET r == calls[c] IN
        /\ \A a, b \in 1..Len(r.scored) : a < b => r.scored[a][1] <= r.scored[b][1]
        /\ \A a, b \in 1..Len(r.scored) : r.scored[a][1] < r.scored[b][1] =>
              \A m, n \in RankedPositions(r) :
                  (r.log[m].pid = r.scored[a][2] /\ r.log[n].pid = r.scored[b][2])
                      => m < n
        /\ \A n \in 1..Len(r.log) : r.log[n].res = "pending" => n = Len(r.log)

C2_SuccessEndsCall ==
    \A c \in Calls :
        /\ (calls[c].pc = "awaiting" /\ METRICS'[CurPid(calls[c])].succ
                                         # METRICS[CurPid(calls[c])].succ)
              => (calls'[c].pc = "done" /\ calls'[c].result.ok
                  /\ calls'[c].result.provider = CurPid(calls[c]))
        /\ calls[c].pc = "done" => calls'[c] = calls[c]

C3_ThresholdStep ==
    \A p \in ProviderIds :
        /\ (consec[p] = BREAKER_THRESHOLD - 1 /\ consec'[p] = BREAKER_THRESHOLD)
              => ~breaker_allows(CB_STATE', p, now')
        /\ (/\ consec'[p] = consec[p] + 1
            /\ consec'[p] < BREAKER_THRESHOLD
            /\ breaker_allows(CB_STATE, p, now))
              => breaker_allows(CB_STATE', p, now')

C3_CooldownState ==
    \A p \in ProviderIds :
        /\ opened_at[p] >= 0 =>
              (breaker_allows(CB_STATE, p, now)
                  <=> now >= opened_at[p] + OPEN_SECONDS * 1000)
        /\ opened_at[p] < 0 => breaker_allows(CB_STATE, p, now)

C3_BreakerThreshold == []C3_CooldownState /\ [][C3_ThresholdStep]_vars

\* a breaker that opened and allows again after the cooldown, untouched since
C3_Witness ==
    \E p \in ProviderIds :
        /\ opened_at[p] >= 0
        /\ consec[p] = BREAKER_THRESHOLD
        /\ now >= opened_at[p] + OPEN_SECONDS * 1000
        /\ breaker_allows(CB_STATE, p, now)

(* C4: no invocation is issued for a provider whose breaker is open at the  *)
(* time of the invocation.                                                  *)
C4_NoInvocationWhileOpen ==
    \A c \in Calls : \A n \in 1..Len(calls[c].log) : ~calls[c].log[n].open

(* C5: P is a candidate for T iff T is among P's capabilities and P names   *)
(* no credential or the value of its credential at the time of the call is  *)
(* non-empty and starts with neither "your-" nor "sk-1234567890".           *)
ClaimedCandidate(p, T, e) ==
    /\ T \in PROVIDERS[p].capabilities
    /\ \/ PROVIDERS[p].api_key_env = ""
       \/ LET v == e[PROVIDERS[p].api_key_env]
          IN /\ v # None
             /\ Len(v) > 0
             /\ ~(Len(v) >= 5 /\ SubSeq(v, 1, 5) = <<"y", "o", "u", "r", "-">>)
             /\ ~(Len(v) >= 13 /\ SubSeq(v, 1, 13) =
                    <<"s", "k", "-", "1", "2", "3", "4", "5", "6", "7", "8", "9", "0">>)

C5_FilterStep ==
    \A c \in Calls : Started(c) =>
        \A p \in ProviderIds :
            p \in Range(calls'[c].candidates)
                <=> ClaimedCandidate(p, calls'[c].task_type, env)

C5_CapabilityFilter == [][C5_FilterStep]_vars

\* a call whose credentialed provider was filtered out on a placeholder key
\* while the provider without credential was kept
C5_Witness ==
    \E c \in Calls :
        /\ calls[c].pc = "awaiting"
        /\ calls[c].task_type = "chat"
        /\ calls[c].candidates = <<"llamacpp">>
        /\ StartsWith(env["OPENAI_API_KEY"], PLACEHOLDER_SK)

(* C6 as stated: every provider that passed the filter is in the ranked     *)
(* attempt list of the call.                                                *)
C6_RankingDropsNone ==
    [][\A c \in Calls : Started(c) =>
          Range(calls'[c].candidates) \subseteq Range(RankedPids(calls'[c]))]_vars

(* C6 amended: the ranked attempt list holds exactly the candidates whose   *)
(* circuit breaker allows them at ranking time, in candidate order up to    *)
(* sorting; a candidate whose breaker is open is dropped.                   *)
C6_RankingStep ==
    \A c \in Calls : Started(c) =>
        /\ Range(RankedPids(calls'[c])) =
              {p \in Range(calls'[c].candidates) : ~(now < CB_STATE[p].open_until)}
        /\ Len(calls'[c].scored) = Cardinality(Range(RankedPids(calls'[c])))

C6_RankingDropsOpenOnly == [][C6_RankingStep]_vars

\* a call in flight one of whose candidates was dropped from the ranking
C6_Witness ==
    \E c \in Calls :
        /\ calls[c].pc = "awaiting"
        /\ Len(calls[c].candidates) = 2
        /\ Len(calls[c].scored) = 1
        /\ calls[c].log[1].pid = calls[c].scored[1][2]

(* C7: when no provider passes the filter or every candidate's breaker is   *)
(* open, route_task returns ok:false at once: no invocation is issued and   *)
(* no telemetry or breaker state changes.                                   *)
C7_ExhaustionStep ==
    \A c \in Calls : Started(c) =>
        LET T == calls'[c].task_type
            cands == {p \in ProviderIds : ClaimedCandidate(p, T, env)}
        IN (\A p \in cands : now < CB_STATE[p].open_until) =>
              /\ calls'[c].pc = "done"
              /\ ~calls'[c].result.ok
              /\ calls'[c].log = << >>
              /\ issued' = issued
              /\ <<METRICS, CB_STATE, COST_TRACKING, BANDWIDTH_METRICS>>'
                    = <<METRICS, CB_STATE, COST_TRACKING, BANDWIDTH_METRICS>>

C7_ExhaustionImmediate == [][C7_ExhaustionStep]_vars

\* a call that found every candidate's breaker open
C7_Witness ==
    \E c \in Calls :
        /\ calls[c].pc = "done"
        /\ calls[c].candidates # << >>
        /\ calls[c].result.error = <<"", "all-circuit-open">>
        /\ \A p \in Range(calls[c].candidates) : now < CB_STATE[p].open_until

(* C8: an invocation that fails on a missing credential is not retried and  *)
(* leaves the provider's circuit breaker as it was.                         *)
C8_MissingKeyStep ==
    \A c \in Calls :
        /\ (calls[c].pc = "awaiting" /\ calls[c].missing /\ calls'[c].pc # "awaiting")
              => CB_STATE' = CB_STATE
        /\ (/\ calls[c].pc = "sleeping"
            /\ calls[c].log[Len(calls[c].log)].res = "missing-key"
            /\ calls'[c].pc = "awaiting")
              => CurPid(calls'[c]) # CurPid(calls[c])

C8_ConfigErrorNotCounted == [][C8_MissingKeyStep]_vars

(* C9: no exception escapes route_task: every call ends with an envelope.   *)
C9_NoExceptionEscapes == \A c \in Calls : calls[c].pc # "raised"

(* C10 as stated: with max_retries = 1 and two ranked candidates, once the  *)
(* first candidate A has failed twice and the second is being invoked, A's  *)
(* consecutive-failure counter is 2 and A's breaker still allows it.        *)
FailoverCase(r) ==
    /\ r.pc = "awaiting"
    /\ r.max_retries = 1
    /\ Len(r.scored) = 2
    /\ r.idx = 2
    /\ r.attempt = 0

C10_FailoverCounter ==
    \A c \in Calls : FailoverCase(calls[c]) =>
        LET A == calls[c].scored[1][2]
        IN CB_STATE[A].fails = 2 /\ breaker_allows(CB_STATE, A, now)

(* C10 amended: if A's consecutive-failure counter is 0 when the call       *)
(* starts (and no other call runs meanwhile), the call invokes A exactly    *)
(* twice, leaves A's counter at 2 with A's breaker still allowing it, then  *)
(* invokes B once and, B succeeding, returns ok:true with provider = B.     *)
C10_FailoverState ==
    \A c \in Calls :
        (FailoverCase(calls[c]) /\ calls[c].fails0[calls[c].scored[1][2]] = 0) =>
            LET r == calls[c]
                A == r.scored[1][2]
                B == r.scored[2][2]
            IN /\ CB_STATE[A].fails = 2
               /\ breaker_allows(CB_STATE, A, now)
               /\ Len(r.log) = 3
               /\ r.log[1].pid = A /\ r.log[1].res # "ok"
               /\ r.log[2].pid = A /\ r.log[2].res # "ok"
               /\ r.log[3].pid = B /\ r.log[3].res = "pending"

C10_FailoverStep ==
    \A c \in Calls :
        (/\ FailoverCase(calls[c])
         /\ calls[c].fails0[calls[c].scored[1][2]] = 0
         /\ calls'[c].pc = "done"
         /\ calls'[c].result.ok) =>
            /\ calls'[c].result.provider = calls[c].scored[2][2]
            /\ CB_STATE'[calls[c].scored[1][2]].fails = 2
            /\ breaker_allows(CB_STATE', calls[c].scored[1][2], now')

C10_Failover == []C10_FailoverState /\ [][C10_FailoverStep]_vars

\* the first call of a run ended on its second candidate after two failures
\* of the first
C10_Witness ==
    \E c \in Calls : \E A, B \in ProviderIds :
        /\ A # B
        /\ calls[c].pc = "done"
        /\ calls[c].max_retries = 1
        /\ calls[c].result.ok
        /\ calls[c].result.provider = B
        /\ issued = 3
        /\ METRICS[A].fail = 2 /\ METRICS[A].succ = 0
        /\ METRICS[B].succ = 1 /\ METRICS[B].fail = 0
        /\ CB_STATE[A].fails = 2

(* C11: when every invocation of a call failed, the error of the returned   *)
(* ok:false envelope is the error of the last failed invocation of the      *)
(* call, whether that invocation belongs to the ranked loop or to the       *)
(* local-fallback pass.                                                     *)
C11_ErrorIsLastFailure ==
    [][\A c \in Calls :
          (/\ InFlight(c)
           /\ calls[c].log # << >>
           /\ calls'[c].pc = "done"
           /\ ~calls'[c].result.ok) =>
              LET r == calls[c]
                  last == r.log[Len(r.log)]
                  kind == IF last.res = "pending"
                          THEN (IF r.missing THEN "missing-key" ELSE "status")
                          ELSE IF last.res = "fail" THEN "status"
                          ELSE IF last.res = "raise" THEN "exception"
                          ELSE last.res
              IN calls'[c].result.error = <<last.pid, kind>>]_vars

(* C12: the local-fallback pass starts only when every ranked candidate has *)
(* exhausted its retries; it invokes only providers whose endpoint starts   *)
(* with http://127.0.0.1 and whose capabilities contain the task type, in   *)
(* registry order, each at most once; it stops at the first success and     *)
(* returns that provider's success envelope; when its last target fails the *)
(* call returns ok:false; no ranked invocation follows a fallback one.      *)
FallbackPositions(r) == {n \in 1..Len(r.log) : r.log[n].phase = "fallback"}

LoopbackSupporters(T) ==
    {p \in ProviderIds :
        /\ T \in PROVIDERS[p].capabilities
        /\ Len(PROVIDERS[p].endpoint) >= 2
        /\ SubSeq(PROVIDERS[p].endpoint, 1, 2) = <<"http://", "127.0.0.1">>}

C12_FallbackState ==
    \A c \in Calls : InFlight(c) =>
        LET r == calls[c]
            fbp == FallbackPositions(r)
        IN /\ \A m \in RankedPositions(r), n \in fbp : m < n
           /\ fbp # {} =>
                /\ Cardinality(RankedPositions(r)) = Len(r.scored) * (r.max_retries + 1)
                /\ \A m \in RankedPositions(r) : r.log[m].res \notin {"ok", "pending"}
                /\ r.pc = "fb_awaiting"
           /\ \A n \in fbp : r.log[n].pid \in LoopbackSupporters(r.task_type)
           /\ \A m, n \in fbp : r.log[m].pid = r.log[n].pid => m = n
           /\ \A n \in fbp : n < Len(r.log) => r.log[n].res = "fail"

C12_FallbackStep ==
    \A c \in Calls :
        LET r == calls[c]
            tried == {r.log[n].pid : n \in FallbackPositions(r)}
            left == LoopbackSupporters(r.task_type) \ tried
            exhausted == /\ r.pc = "sleeping"
                         /\ r.idx = Len(r.scored)
                         /\ r.attempt = r.max_retries
        IN /\ (exhausted /\ calls'[c] # r) =>
                IF left = {} THEN calls'[c].pc = "done" /\ ~calls'[c].result.ok
                ELSE /\ calls'[c].pc = "fb_awaiting"
                     /\ Len(calls'[c].log) = Len(r.log) + 1
                     /\ calls'[c].log[Len(r.log) + 1].pid \in left
           /\ (r.pc = "fb_awaiting" /\ calls'[c].pc = "done" /\ calls'[c].result.ok) =>
                calls'[c].result.provider = r.log[Len(r.log)].pid
           /\ (r.pc = "fb_awaiting" /\ calls'[c].pc = "done" /\ ~calls'[c].result.ok) =>
                left = {}
           /\ (r.pc = "fb_awaiting" /\ calls'[c].pc = "fb_awaiting" /\ calls'[c] # r) =>
                /\ Len(calls'[c].log) = Len(r.log) + 1
                /\ calls'[c].log[Len(r.log)].res = "fail"
                /\ calls'[c].log[Len(r.log) + 1].pid \in left

C12_FallbackPass == []C12_FallbackState /\ [][C12_FallbackStep]_vars

\* the second local provider is being invoked after the first one failed in
\* the fallback pass
C12_Witness ==
    \E c \in Calls :
        /\ calls[c].pc = "fb_awaiting"
        /\ Cardinality(FallbackPositions(calls[c])) = 2
        /\ calls[c].log[Len(calls[c].log)].pid = "ollama"
        /\ calls[c].log[Len(calls[c].log) - 1].pid = "llamacpp"

(* C13: for a local provider and a response text of length n > 0 holding c  *)
(* non-printable control characters, the invoker returns ok:false with a    *)
(* garbled-output error when 10*c >= n and ok:true when 10*c < n.           *)
C13_GarbledDetection ==
    (response # NoResponse /\ Len(text) > 0) =>
        LET n == Len(text)
            c == Cardinality({i \in 1..n : text[i] \in GARBLED_CHARS})
        IN /\ 10 * c >= n =>
                (~response.ok /\ response.error = "llamacpp-garbled-output")
           /\ 10 * c < n => response.ok

(* C14: with everything else equal, a step that raises the moving-average   *)
(* latency of a provider (from a recorded average a >= 0 to b > a) strictly *)
(* raises its score, and a step that raises its success rate strictly       *)
(* lowers its score; conversely for a step that lowers them.                *)
ScoreNow(p, pl, pc, j) ==
    score_provider(p, "chat", pl, pc, j, METRICS, BANDWIDTH_METRICS,
                   COST_TRACKING, CB_STATE, now)

ScoreNext(p, pl, pc, j) ==
    score_provider(p, "chat", pl, pc, j, METRICS', BANDWIDTH_METRICS',
                   COST_TRACKING', CB_STATE', now')

C14_LatencyStep ==
    \A p \in TelemetryPids, pl \in BOOLEAN, pc \in BOOLEAN, j \in JitterChoices :
        LET a == moving_avg(METRICS[p].latencies)
            b == moving_avg(METRICS'[p].latencies)
        IN (/\ METRICS'[p].succ = METRICS[p].succ
            /\ METRICS'[p].fail = METRICS[p].fail
            /\ a # NoAvg) =>
              /\ a < b => ScoreNext(p, pl, pc, j) > ScoreNow(p, pl, pc, j)
              /\ a > b => ScoreNext(p, pl, pc, j) < ScoreNow(p, pl, pc, j)

C14_RateStep ==
    \A p \in TelemetryPids, pl \in BOOLEAN, pc \in BOOLEAN, j \in JitterChoices :
        LET s0 == METRICS[p].succ
            n0 == METRICS[p].succ + METRICS[p].fail
            s1 == METRICS'[p].succ
            n1 == METRICS'[p].succ + METRICS'[p].fail
        IN (METRICS'[p].latencies = METRICS[p].latencies /\ n0 > 0) =>
              /\ s0 * n1 < s1 * n0 => ScoreNext(p, pl, pc, j) < ScoreNow(p, pl, pc, j)
              /\ s0 * n1 > s1 * n0 => ScoreNext(p, pl, pc, j) > ScoreNow(p, pl, pc, j)

C14_ScoringMonotone == [][C14_LatencyStep /\ C14_RateStep]_vars

(* C15: after any sequence of telemetry operations, the latency buffer of a *)
(* provider holds the last min(n, 100) of the n samples recorded, in        *)
(* arrival order, its tokens-per-second buffer the last min(m, 50) of the m *)
(* samples recorded, and its success and failure counters never decrease.   *)
\* the last min(n, cap) of the samples 1, 2, ..., n in arrival order
MostRecent(n, cap) ==
    LET L == IF n < cap THEN n ELSE cap
    IN [i \in 1..L |-> n - L + i]

C15_BufferState ==
    \A p \in TelemetryPids :
        /\ Len(METRICS[p].latencies) <= 100
        /\ Len(BANDWIDTH_METRICS[p]) <= 50
        /\ METRICS[p].latencies = MostRecent(arrivals.latency, 100)
        /\ BANDWIDTH_METRICS[p] = MostRecent(arrivals.bandwidth, 50)

C15_CounterStep ==
    \A p \in ProviderIds :
        /\ METRICS'[p].succ >= METRICS[p].succ
        /\ METRICS'[p].fail >= METRICS[p].fail

C15_BoundedBuffers == []C15_BufferState /\ [][C15_CounterStep]_vars

\* both buffers have overflowed and the counters have grown
C15_Witness ==
    \E p \in TelemetryPids :
        /\ arrivals.latency > 100
        /\ arrivals.bandwidth > 50
        /\ Len(METRICS[p].latencies) = 100
        /\ Len(BANDWIDTH_METRICS[p]) = 50
        /\ METRICS[p].succ > 0
        /\ METRICS[p].fail > 0

(* C16: a route_task call makes at most                                     *)
(* |ranked candidates| * (max_retries + 1) + |loopback providers supporting *)
(* the task| invocations, and when it stops it has returned an envelope.    *)
C16_InvocationBound ==
    \A c \in Calls : InFlight(c) =>
        Len(calls[c].log) <=
            Len(calls[c].scored) * (calls[c].max_retries + 1)
                + Cardinality(LoopbackSupporters(calls[c].task_type))

C16_EndsWithEnvelope ==
    \A c \in Calls :
        (InFlight(c) /\ calls'[c].pc \notin InFlightPcs) =>
            /\ calls'[c].pc = "done"
            /\ calls'[c].result # NoResult

C16_TerminatesWithEnvelope ==
    []C16_InvocationBound /\ [][C16_EndsWithEnvelope]_vars

(* C17 as stated: once the [DONE] sentinel has been received the fragment   *)
(* sequence yields nothing further, and the sequence ends.                  *)
C17_NothingAfterSentinel ==
    /\ [](gen.done_at >= 0 => Len(fragments) = gen.done_at)
    /\ (gen.state = "open" ~> gen.state = "ended")

(* C17 amended: the fragment sequence is finite and ends when the response  *)
(* body ends; the openai generator ends as soon as [DONE] is received and   *)
(* yields nothing for it or after it; an ended sequence yields nothing      *)
(* more; a consumer that keeps draining reaches the end.                    *)
C17_FiniteState ==
    /\ Len(fragments) <= Len(StreamBody(gen.content, TRUE))
    /\ (gen.family = "openai" /\ gen.done_at >= 0) =>
            (gen.state = "ended" /\ Len(fragments) = gen.done_at)

C17_EndStep ==
    /\ gen.state = "ended" => (fragments' = fragments /\ gen' = gen)
    /\ (gen.state = "open" /\ resp_chunks = << >> /\ gen' # gen) =>
            (gen'.state = "ended" /\ fragments' = fragments)

C17_StreamFinite ==
    /\ []C17_FiniteState
    /\ [][C17_EndStep]_vars
    /\ (gen.state = "open" ~> gen.state = "ended")

\* an openai stream that ended on the sentinel with part of the body unread
C17_Witness ==
    /\ gen.state = "ended"
    /\ gen.family = "openai"
    /\ gen.done_at >= 0
    /\ fragments # << >>
    /\ resp_chunks # << >>

(* C18: the concatenation of the fragments of a drained stream is the text  *)
(* a single-shot invocation returns for the same generated content.         *)
C18_StreamEqualsText ==
    gen.state = "ended" =>
        /\ \A i \in 1..Len(fragments) : fragments[i].kind = "text"
        /\ [i \in 1..Len(fragments) |-> fragments[i].val[1]] = gen.content

(* C19: a call made with stream=true that returns ok:true returns an        *)
(* envelope with a stream field and a provider, whichever provider served   *)
(* it, in the ranked loop or in the local-fallback pass.                    *)
C19_StreamEnvelope ==
    [][\A c \in Calls :
          (/\ InFlight(c)
           /\ calls[c].stream
           /\ calls'[c].pc = "done"
           /\ calls'[c].result.ok) =>
              /\ calls'[c].result.stream
              /\ calls'[c].result.provider \in ProviderIds]_vars

(* C20: when a call returns, for every provider P the sum of P's success    *)
(* and failure counters has grown by the number of invocations of P the     *)
(* call made, fallback invocations included; a success envelope naming P    *)
(* implies that P's success counter grew by one and that P's                *)
(* consecutive-failure counter is 0.                                        *)
C20_EveryAttemptRecorded ==
    [][\A c \in Calls :
          (InFlight(c) /\ calls'[c].pc = "done") =>
              LET r == calls[c] IN
              /\ \A P \in ProviderIds :
                    (METRICS'[P].succ + METRICS'[P].fail)
                        - (r.metrics0[P].succ + r.metrics0[P].fail)
                    = Cardinality({n \in 1..Len(r.log) : r.log[n].pid = P})
              /\ calls'[c].result.ok =>
                    LET P == calls'[c].result.provider
                    IN /\ METRICS'[P].succ = r.metrics0[P].succ + 1
                       /\ CB_STATE'[P].fails = 0]_vars

(* C21: each failed attempt of the ranked loop, returned ok:false or raised,*)
(* appends one latency sample for the provider, increments its failure      *)
(* counter by one and advances its breaker failure counter by one (the      *)
(* counter restarting at 0 when that failure opens the breaker), before the *)
(* backoff sleep.                                                           *)
C21_FailedAttemptRecorded ==
    [][\A c \in Calls :
          (calls[c].pc = "awaiting" /\ calls'[c].pc = "sleeping") =>
              LET pid == CurPid(calls[c]) IN
              /\ Len(METRICS'[pid].latencies) = Len(METRICS[pid].latencies) + 1
              /\ METRICS'[pid].fail = METRICS[pid].fail + 1
              /\ METRICS'[pid].succ = METRICS[pid].succ
              /\ \/ CB_STATE'[pid].fails = CB_STATE[pid].fails + 1
                 \/ /\ CB_STATE[pid].fails + 1 = 3
                    /\ CB_STATE'[pid].fails = 0
                    /\ CB_STATE'[pid].open_until > now']_vars

(* C22: a successful single-shot attempt of the ranked loop whose response  *)
(* reports total tokens > 0, with a measured latency > 0, appends the       *)
(* sample tokens / latency_ms * 1000 to the provider's bandwidth buffer, so *)
(* that get_bandwidth_score no longer returns the neutral 0.5.              *)
C22_BandwidthFeedback ==
    [][\A c \in Calls :
          (/\ calls[c].pc = "awaiting"
           /\ ~calls[c].stream
           /\ calls'[c].pc = "done"
           /\ calls'[c].result.ok
           /\ calls'[c].result.tokens > 0
           /\ now' > calls[c].t0) =>
              LET pid == calls'[c].result.provider
                  tps == (calls'[c].result.tokens * 1000) \div (now' - calls[c].t0)
              IN /\ BANDWIDTH_METRICS'[pid] = Append(BANDWIDTH_METRICS[pid], tps)
                 /\ BANDWIDTH_METRICS'[pid] # << >>]_vars

(* --------------- chain-of-thought suppression (route_task) -------------- *)
CotTaskTypes == {"chat"}

CotPids == Supporters("chat")

\* the text of an instruction: a provider's cot_suppression_prompt (or its
\* default), or the suppression_prompt of a provider rule (or its default)
PROVIDER_PROMPT == "cot_suppression_prompt"

RULE_PROMPT == "suppression_prompt"

Instructions == {PROVIDER_PROMPT, RULE_PROMPT}

\* the caller's text, before any rewriting
UserText == <<"Q">>

\* (suppress, prompt) for a task type and a provider
should_suppress_cot(task_type, provider_id) ==
    IF ~supports_cot[provider_id]
    THEN [suppress |-> FALSE, prompt |-> ""]
    ELSE IF task_type \in COT_SUPPRESSION.force_for
    THEN [suppress |-> FALSE, prompt |-> ""]
    ELSE IF task_type \in COT_SUPPRESSION.suppress_for
    THEN [suppress |-> TRUE, prompt |-> PROVIDER_PROMPT]
    ELSE IF provider_id \in COT_SUPPRESSION.provider_rules
    THEN [suppress |-> TRUE, prompt |-> RULE_PROMPT]
    ELSE [suppress |-> FALSE, prompt |-> ""]

\* f"{cot_prompt}\n\n{content}"
Prepend(cot_prompt, content) == <<cot_prompt, "NLNL">> \o content

\* enhanced_payload = payload.copy() followed by the rewrite: payload.copy()
\* is shallow, so the messages list and its last message are the caller's own
\* objects and assigning last_message["content"] changes the caller's payload;
\* assigning enhanced_payload["prompt"] changes the copy alone.  The result
\* is the caller's payload after the rewrite (caller) and the payload handed
\* to the provider (enhanced).
EnhancePayload(p, task_type, pid) ==
    LET d == should_suppress_cot(task_type, pid)
    IN IF d.suppress /\ d.prompt # ""
       THEN IF p.form = "messages"
            THEN IF p.role = "user"
                 THEN LET q == [p EXCEPT !.content = Prepend(d.prompt, @)]
                      IN [caller |-> q, enhanced |-> q]
                 ELSE [caller |-> p, enhanced |-> p]
            ELSE [caller |-> p,
                  enhanced |-> [p EXCEPT !.content = Prepend(d.prompt, @)]]
       ELSE [caller |-> p, enhanced |-> p]

\* the candidate lists the ranking can produce for a task type
CandidateOrders(task_type) ==
    LET S == Supporters(task_type)
    IN {<<a>> : a \in S} \cup {<<ab[1], ab[2]>> : ab \in {x \in S \X S : x[1] # x[2]}}

\* route_task(task_type, payload) is called and ranks its candidates
RouteWithPayload(task_type, order, form, role) ==
    /\ rewrite.pc = "idle"
    /\ payload' = [form |-> form, role |-> role, content |-> UserText]
    /\ rewrite' = [pc |-> "loop", task_type |-> task_type, candidates |-> order,
                   idx |-> 0, fb |-> 0]
    /\ sent' = << >>
    /\ UNCHANGED <<routerVars, notCot,
                   COT_SUPPRESSION, supports_cot>>

\* the loop reaches its next candidate (the one before has failed all its
\* attempts): the payload is rewritten for it and handed to invoke_provider
NextCandidate ==
    /\ rewrite.pc = "loop"
    /\ rewrite.idx < Len(rewrite.candidates)
    /\ LET pid == rewrite.candidates[rewrite.idx + 1]
           e == EnhancePayload(payload, rewrite.task_type, pid)
       IN /\ payload' = e.caller
          /\ sent' = Append(sent, [pid |-> pid, phase |-> "ranked",
                                   content |-> e.enhanced.content])
    /\ rewrite' = [rewrite EXCEPT !.idx = @ + 1]
    /\ UNCHANGED <<routerVars, notCot,
                   COT_SUPPRESSION, supports_cot>>

\* every candidate has failed: the fallback pass hands the caller's payload
\* to the next loopback provider with the capability, if there is one
FallbackCandidate ==
    /\ rewrite.pc \in {"loop", "fallback"}
    /\ rewrite.idx = Len(rewrite.candidates)
    /\ LET rest == {j \in (rewrite.fb + 1)..Len(PidOrder) :
                        FallbackTarget(PidOrder[j], rewrite.task_type)}
       IN IF rest = {}
          THEN /\ rewrite' = [rewrite EXCEPT !.pc = "done"]
               /\ UNCHANGED sent
          ELSE LET j == CHOOSE x \in rest : \A y \in rest : x <= y
               IN /\ rewrite' = [rewrite EXCEPT !.pc = "fallback", !.fb = j]
                  /\ sent' = Append(sent, [pid |-> PidOrder[j], phase |-> "fallback",
                                           content |-> payload.content])
    /\ UNCHANGED <<routerVars, notCot,
                   COT_SUPPRESSION, supports_cot, payload>>

\* the invocation just made succeeds and route_task returns
ReturnToCaller ==
    /\ rewrite.pc \in {"loop", "fallback"}
    /\ sent # << >>
    /\ rewrite' = [rewrite EXCEPT !.pc = "done"]
    /\ UNCHANGED <<routerVars, notCot,
                   COT_SUPPRESSION, supports_cot, payload, sent>>

PayloadForms == {"prompt", "messages"}

Roles == {"user", "assistant"}

\* any configuration of the suppression lists, of the provider rules and of
\* the supports_cot flags
InitCot ==
    /\ InitCore
    /\ env = [name \in EnvNames |-> LIVE_KEY]
    /\ COT_SUPPRESSION \in [suppress_for : SUBSET CotTaskTypes,
                            force_for : SUBSET CotTaskTypes,
                            provider_rules : SUBSET CotPids]
    /\ supports_cot \in {f \in [ProviderIds -> BOOLEAN] :
                            \A p \in ProviderIds \ CotPids : f[p]}
    /\ InitPayload
    /\ InitSide

NextCot ==
    \/ \E task_type \in CotTaskTypes, form \in PayloadForms, role \in Roles :
          \E order \in CandidateOrders(task_type) :
            RouteWithPayload(task_type, order, form, role)
    \/ NextCandidate
    \/ FallbackCandidate
    \/ ReturnToCaller

SpecCot == InitCot /\ [][NextCot]_vars

\* the number of instructions in a text
InstructionCount(content) ==
    Cardinality({i \in 1..Len(content) : content[i] \in Instructions})

\* C23: if the task type is in force_for, no payload handed to a provider
\* holds a suppression instruction, whatever suppress_for and the provider
\* rules say; and no payload handed to a provider whose supports_cot is
\* false holds one
C23_ForcePrecedence ==
    \A n \in 1..Len(sent) :
        /\ rewrite.task_type \in COT_SUPPRESSION.force_for
              => InstructionCount(sent[n].content) = 0
        /\ ~supports_cot[sent[n].pid] => InstructionCount(sent[n].content) = 0

\* C29: the caller's payload is never modified, and each provider is handed
\* the caller's original text with at most one instruction in front of it;
\* the fallback pass is handed the original text
C29_PayloadIsolated ==
    /\ rewrite.pc # "idle" => payload.content = UserText
    /\ \A n \in 1..Len(sent) :
          /\ sent[n].content \in
                {UserText} \cup {Prepend(i, UserText) : i \in Instructions}
          /\ sent[n].phase = "fallback" => sent[n].content = UserText

(* ------------------- invoke_provider under a fault ---------------------- *)
InvokeFamilies ==
    {"llamacpp", "openai", "ollama", "anthropic", "grok", "gemini", "generic"}

\* what goes wrong with the request: nothing, the server answers with a
\* status >= 400, client.post raises a transport exception (an
\* httpx.HTTPError), the server answers 200 with a body that is not JSON
Faults == {"none", "status", "transport", "parse"}

\* str(e) of an exception: the text httpx or json gives it
ExceptionText == <<"str(e)">>

Returned(ok, error) == [raised |-> FALSE, ok |-> ok, error |-> error]

Raised == [raised |-> TRUE, ok |-> FALSE, error |-> << >>]

\* how invoke_provider ends, branch by branch.  A fault hits every request
\* the branch sends (the ollama branch tries three paths).
invoke_provider(family, stream, fault, has_key) ==
    IF family = "llamacpp" THEN
        \* both client.post calls are awaited outside any try; the
        \* single-shot parsing is inside try / except Exception; the
        \* generator drops what it cannot parse
        IF fault = "transport" THEN Raised
        ELSE IF fault = "status" THEN Returned(FALSE, <<"llamacpp", "-status:">>)
        ELSE IF fault = "parse" /\ ~stream
        THEN Returned(FALSE, <<"llamacpp", "-parse-error:">>)
        ELSE Returned(TRUE, << >>)
    ELSE IF family = "openai" THEN
        \* no try at all in this branch
        IF ~has_key THEN Returned(FALSE, <<"missing-", "openai", "-key">>)
        ELSE IF fault = "transport" THEN Raised
        ELSE IF fault = "status" THEN Returned(FALSE, <<"openai", "-status:">>)
        ELSE IF fault = "parse" /\ ~stream THEN Raised
        ELSE Returned(TRUE, << >>)
    ELSE IF family = "ollama" THEN
        \* except httpx.HTTPError around each path; an unparsable body
        \* becomes {"text": r.text}
        IF fault = "transport"
        THEN Returned(FALSE, <<"ollama", "-all-paths-failed:">> \o ExceptionText)
        ELSE IF fault = "status"
        THEN Returned(FALSE, <<"ollama", "-all-paths-failed:", "ollama", "-status:">>)
        ELSE Returned(TRUE, << >>)
    ELSE IF family = "anthropic" THEN
        \* try / except Exception around the requests: error is str(e)
        IF ~has_key THEN Returned(FALSE, <<"missing-", "anthropic", "-key">>)
        ELSE IF fault = "transport" THEN Returned(FALSE, ExceptionText)
        ELSE IF fault = "status" THEN Returned(FALSE, <<"anthropic", "-status:">>)
        ELSE IF fault = "parse" /\ ~stream THEN Returned(FALSE, ExceptionText)
        ELSE Returned(TRUE, << >>)
    ELSE IF family \in {"grok", "gemini"} THEN
        \* single-shot whatever the flag; try / except Exception
        IF fault = "status" THEN Returned(FALSE, <<family, "-status:">>)
        ELSE IF fault \in {"transport", "parse"} THEN Returned(FALSE, ExceptionText)
        ELSE Returned(TRUE, << >>)
    ELSE
        \* generic: try / except Exception; an unparsable body becomes
        \* {"text": r.text}
        IF fault = "status" THEN Returned(FALSE, <<"generic", "-status:">>)
        ELSE IF fault = "transport" THEN Returned(FALSE, ExceptionText)
        ELSE Returned(TRUE, << >>)

\* await invoke_provider(pid, model, payload, timeout, stream) with the fault
InvokeWithFault(family, stream, fault, has_key) ==
    /\ LET o == invoke_provider(family, stream, fault, has_key)
       IN invocation' = [family |-> family, stream |-> stream, fault |-> fault,
                         has_key |-> has_key, raised |-> o.raised, ok |-> o.ok,
                         error |-> o.error]
    /\ UNCHANGED <<routerVars, notFault>>

NextFault ==
    \E family \in InvokeFamilies, stream \in BOOLEAN, fault \in Faults,
       has_key \in BOOLEAN :
        InvokeWithFault(family, stream, fault, has_key)

SpecFault == InitGarbled /\ [][NextFault]_vars

\* C25: an invocation hit by a status >= 400, a transport exception or an
\* unparsable body never raises: it returns ok = false with an error string
\* that names the provider
C25_NeverRaises ==
    invocation.fault # "none" =>
        /\ ~invocation.raised
        /\ ~invocation.ok
        /\ \E i \in 1..Len(invocation.error) : invocation.error[i] = invocation.family

(* ---------------- route_task calls running concurrently ----------------- *)
ConcTaskTypes == {"chat"}

\* every random.random() draws 0
NoJitter(task_type) == [p \in Supporters(task_type) |-> 0]

\* the calls are tasks of one event loop: each action is the code between two
\* suspension points (await invoke_provider, await asyncio.sleep), and a call
\* may start while others are suspended
NextConc ==
    \/ \E c \in Calls, task_type \in ConcTaskTypes, max_retries \in 0..MaxRetriesBound :
            Start(c, task_type, max_retries, FALSE, FALSE, NoJitter(task_type), FALSE)
    \/ \E c \in Calls, lat \in LatencyChoices : ReturnOk(c, 0, lat)
    \/ \E c \in Calls, lat \in LatencyChoices : ReturnFail(c, lat)
    \/ \E c \in Calls, lat \in LatencyChoices : Raise(c, lat)
    \/ \E c \in Calls : Wake(c)
    \/ \E c \in Calls, lat \in LatencyChoices : FbReturnOk(c, lat)
    \/ \E c \in Calls, lat \in LatencyChoices : FbReturnFail(c, lat)
    \/ \E c \in Calls, lat \in LatencyChoices : FbRaise(c, lat)

SpecConc == InitFallback /\ [][NextConc]_vars

\* the calls whose ranked invocation of p ends in this step, by outcome
RankedSucceeded(p) ==
    {c \in Calls : /\ calls[c].pc = "awaiting"
                   /\ CurPid(calls[c]) = p
                   /\ calls'[c].pc = "done"}

RankedFailed(p) ==
    {c \in Calls : /\ calls[c].pc = "awaiting"
                   /\ CurPid(calls[c]) = p
                   /\ calls'[c].pc = "sleeping"}

\* the breaker of p opens in this step
Opens(p) == CB_STATE'[p].open_until # CB_STATE[p].open_until

C24_CounterStep ==
    \A p \in ProviderIds :
        /\ METRICS'[p].succ = METRICS[p].succ + Cardinality(RankedSucceeded(p))
        /\ METRICS'[p].fail = METRICS[p].fail + Cardinality(RankedFailed(p))

C24_BreakerStep ==
    \A p \in ProviderIds :
        Opens(p) <=> /\ RankedFailed(p) # {}
                     /\ CB_STATE[p].fails + 1 = BREAKER_THRESHOLD

\* the counter of the breaker is the number of failures recorded since the
\* last recorded success or opening
C24_BreakerState ==
    \A p \in ProviderIds : CB_STATE[p].fails = consec[p] % BREAKER_THRESHOLD

\* C24: with route_task calls interleaved at their suspension points, every
\* ranked attempt that ends adds exactly one to its provider's success or
\* failure counter and nothing else changes the counters, and a breaker
\* opens exactly in the step that records the threshold-th failure since the
\* last recorded success or opening
C24_ConcurrentUpdates ==
    /\ []C24_BreakerState
    /\ [][C24_CounterStep]_vars
    /\ [][C24_BreakerStep]_vars

\* two calls have both recorded outcomes for one provider while the other
\* was in flight, and that provider's breaker has opened
C24_Witness ==
    \E p \in ProviderIds :
        /\ opened_at[p] >= 0
        /\ METRICS[p].fail >= BREAKER_THRESHOLD
        /\ \A c \in Calls : /\ calls[c].pc = "sleeping"
                            /\ CurPid(calls[c]) = p
                            /\ calls[c].max_retries < BREAKER_THRESHOLD - 1

C30_CounterRange ==
    \A p \in ProviderIds :
        CB_STATE[p].fails >= 0 /\ CB_STATE[p].fails < BREAKER_THRESHOLD

C30_ResetStep ==
    \A p \in ProviderIds :
        /\ Opens(p) => CB_STATE'[p].fails = 0
        /\ RankedSucceeded(p) # {} =>
              /\ CB_STATE'[p].fails = 0
              /\ CB_STATE'[p].open_until = CB_STATE[p].open_until

\* C30: every provider's consecutive-failure counter stays in
\* 0 .. threshold - 1; it is 0 after the step that opens the breaker and
\* after every recorded success, and a recorded success leaves open_until
\* as it was
C30_FailsBelowThreshold == []C30_CounterRange /\ [][C30_ResetStep]_vars

\* a success has been recorded for a provider whose breaker had opened
\* before, and the opening is still in CB_STATE
C30_Witness ==
    \E p \in ProviderIds :
        /\ opened_at[p] >= 0
        /\ CB_STATE[p].open_until > 0
        /\ CB_STATE[p].fails = 0
        /\ consec[p] = 0
        /\ METRICS[p].succ > 0

(* --------------------------- RedisPollingStore -------------------------- *)
MaxChunks == 3

\* the last_sequence arguments a poller passes
PollArgs == (-1)..MaxChunks

\* stream_data of create_stream
NewStream ==
    [exists |-> TRUE, status |-> "active", chunks |-> << >>, total_chunks |-> 0,
     is_complete |-> FALSE]

\* add_chunk: chunk_data gets sequence = len(chunks) and is appended
WithChunk(stream_data, chunk) ==
    LET chunks == Append(stream_data.chunks,
                         [data |-> chunk, sequence |-> Len(stream_data.chunks)])
    IN [stream_data EXCEPT !.chunks = chunks, !.total_chunks = Len(chunks)]

\* variant: the chunk at last_sequence is returned again
NewChunks_inclusive(all_chunks, last_sequence) ==
    IF last_sequence < 0 THEN all_chunks
    ELSE [j \in 1..(IF Len(all_chunks) > last_sequence
                    THEN Len(all_chunks) - last_sequence ELSE 0) |->
            all_chunks[j + last_sequence]]

\* poll_stream: every chunk for last_sequence < 0, else those at a list
\* index i (from 0) with i > last_sequence
NewChunks(all_chunks, last_sequence) ==
    IF last_sequence < 0 THEN all_chunks
    ELSE [j \in 1..(IF Len(all_chunks) > last_sequence + 1
                    THEN Len(all_chunks) - (last_sequence + 1) ELSE 0) |->
            all_chunks[j + last_sequence + 1]]

\* the dict poll_stream returns
PollResult(stream_data, last_sequence) ==
    [op |-> "poll", ok |-> TRUE,
     chunks |-> NewChunks(stream_data.chunks, last_sequence),
     total_chunks |-> Len(stream_data.chunks),
     last_sequence |-> Len(stream_data.chunks) - 1,
     is_complete |-> stream_data.is_complete,
     status |-> stream_data.status]

\* complete_stream
Completed(stream_data) ==
    [stream_data EXCEPT !.is_complete = TRUE, !.status = "completed"]

BoolResult(op, ok) == [NoStoreResult EXCEPT !.op = op, !.ok = ok]

\* create_stream: one setex of the new stream
CreateStream(c) ==
    /\ clients[c].pc = "idle"
    /\ ~redis_stream.exists
    /\ redis_stream' = NewStream
    /\ clients' = [clients EXCEPT ![c].result = BoolResult("create", TRUE)]
    /\ UNCHANGED <<routerVars, notStore, store_hist>>

\* add_chunk up to redis_client.get: False when the key is missing or the
\* stream is not active, else the chunk is appended to the local copy
AddGet(c) ==
    /\ clients[c].pc = "idle"
    /\ store_hist.next_chunk <= MaxChunks
    /\ store_hist' = [store_hist EXCEPT !.next_chunk = @ + 1]
    /\ clients' = [clients EXCEPT ![c] =
          IF ~redis_stream.exists \/ redis_stream.status # "active"
          THEN [@ EXCEPT !.result = BoolResult("add", FALSE)]
          ELSE [@ EXCEPT !.pc = "add_set", !.chunk = store_hist.next_chunk,
                         !.stream_data = WithChunk(redis_stream, store_hist.next_chunk)]]
    /\ UNCHANGED <<routerVars, notStore, redis_stream>>

\* add_chunk from redis_client.setex to return True
AddSet(c) ==
    /\ clients[c].pc = "add_set"
    /\ redis_stream' = clients[c].stream_data
    /\ clients' = [clients EXCEPT ![c].pc = "idle",
                                  ![c].result = BoolResult("add", TRUE)]
    /\ store_hist' = [store_hist EXCEPT !.acked = @ \cup {clients[c].chunk}]
    /\ UNCHANGED <<routerVars, notStore>>

\* poll_stream up to redis_client.get; a poller that follows the stream
\* passes the last_sequence of its previous result
PollGet(c, k, follow) ==
    /\ clients[c].pc = "idle"
    /\ follow => k = clients[c].last_sequence
    /\ clients' = [clients EXCEPT ![c] =
          IF ~redis_stream.exists
          THEN [@ EXCEPT !.result = BoolResult("poll", FALSE)]
          ELSE [@ EXCEPT !.pc = "poll_set", !.k = k, !.follow = follow,
                         !.stream_data = redis_stream]]
    /\ UNCHANGED <<routerVars, notStore, redis_stream, store_hist>>

\* poll_stream from the setex that stores last_poll to its return
PollSet(c) ==
    /\ clients[c].pc = "poll_set"
    /\ redis_stream' = clients[c].stream_data
    /\ LET res == PollResult(clients[c].stream_data, clients[c].k)
       IN clients' = [clients EXCEPT ![c] =
             [@ EXCEPT !.pc = "idle", !.result = res,
                       !.received = IF clients[c].follow THEN @ \o res.chunks ELSE @,
                       !.last_sequence = IF clients[c].follow THEN res.last_sequence
                                         ELSE @]]
    /\ UNCHANGED <<routerVars, notStore, store_hist>>

\* complete_stream up to redis_client.get
CompleteGet(c) ==
    /\ clients[c].pc = "idle"
    /\ clients' = [clients EXCEPT ![c] =
          IF ~redis_stream.exists
          THEN [@ EXCEPT !.result = BoolResult("complete", FALSE)]
          ELSE [@ EXCEPT !.pc = "complete_set",
                         !.stream_data = Completed(redis_stream)]]
    /\ UNCHANGED <<routerVars, notStore, redis_stream, store_hist>>

\* complete_stream from redis_client.setex to return True
CompleteSet(c) ==
    /\ clients[c].pc = "complete_set"
    /\ redis_stream' = clients[c].stream_data
    /\ clients' = [clients EXCEPT ![c].pc = "idle",
                                  ![c].result = BoolResult("complete", TRUE)]
    /\ store_hist' = [store_hist EXCEPT !.completed = TRUE]
    /\ UNCHANGED <<routerVars, notStore>>

\* no other client is inside an operation
Alone(c) == \A d \in StoreClients \ {c} : clients[d].pc = "idle"

\* the operations run one after the other (one event loop: the redis client
\* is synchronous and no operation awaits between its get and its setex)
NextStore ==
    \/ \E c \in Producers : Alone(c) /\ CreateStream(c)
    \/ \E c \in Producers : Alone(c) /\ AddGet(c)
    \/ \E c \in Pollers, k \in PollArgs, follow \in BOOLEAN :
          Alone(c) /\ PollGet(c, k, follow)
    \/ \E c \in Producers : Alone(c) /\ CompleteGet(c)
    \/ \E c \in Producers : AddSet(c)
    \/ \E c \in Pollers : PollSet(c)
    \/ \E c \in Producers : CompleteSet(c)

SpecStore == InitGarbled /\ [][NextStore]_vars

\* separate store instances on one Redis: the operations interleave at the
\* Redis commands
NextStoreConc ==
    \/ \E c \in Producers : CreateStream(c)
    \/ \E c \in Producers : AddGet(c)
    \/ \E c \in Pollers : PollGet(c, clients[c].last_sequence, TRUE)
    \/ \E c \in Producers : CompleteGet(c)
    \/ \E c \in Producers : AddSet(c)
    \/ \E c \in Pollers : PollSet(c)
    \/ \E c \in Producers : CompleteSet(c)

SpecStoreConc == InitGarbled /\ [][NextStoreConc]_vars

\* the chunks of a list whose sequence number is above k
Above(all_chunks, k) ==
    LET Test(ch) == ch.sequence > k IN SelectSeq(all_chunks, Test)

C26_StoreState ==
    /\ \A i \in 1..Len(redis_stream.chunks) :
          /\ redis_stream.chunks[i].sequence = i - 1
          /\ \A j \in 1..Len(redis_stream.chunks) :
                i < j => redis_stream.chunks[i].data < redis_stream.chunks[j].data
    /\ redis_stream.total_chunks = Len(redis_stream.chunks)
    /\ store_hist.completed => redis_stream.is_complete
    /\ \A c \in StoreClients :
          /\ Len(clients[c].received) = clients[c].last_sequence + 1
          /\ Len(clients[c].received) <= Len(redis_stream.chunks)
          /\ clients[c].received =
                SubSeq(redis_stream.chunks, 1, Len(clients[c].received))

C26_PollStep ==
    \A c \in StoreClients :
        clients[c].pc = "poll_set" /\ clients'[c].pc = "idle" =>
            LET r == clients'[c].result
                k == clients[c].k
                all == redis_stream'.chunks
            IN /\ r.chunks = Above(all, k)
               /\ k < 0 => r.chunks = all
               /\ r.last_sequence = r.total_chunks - 1
               /\ r.total_chunks = redis_stream'.total_chunks
               /\ store_hist.completed => r.is_complete
               /\ clients[c].follow =>
                     /\ clients'[c].received = all
                     /\ Len(all) = Len(clients[c].received) => r.chunks = << >>

\* C26: with the operations run one after the other, poll_stream(id, k)
\* returns exactly the chunks with sequence number above k in insertion
\* order (all of them for k < 0) and last_sequence = total_chunks - 1; a
\* poller passing the last_sequence it last received has got every chunk
\* once and in order, gets an empty list when nothing was added, and is
\* told is_complete once complete_stream has returned
C26_PollingInOrder == []C26_StoreState /\ [][C26_PollStep]_vars

\* a poller has followed the stream over several polls: its last poll
\* brought one new chunk after earlier ones, on a completed stream
C26_Witness ==
    \E c \in StoreClients :
        /\ clients[c].pc = "idle"
        /\ clients[c].result.op = "poll"
        /\ clients[c].result.is_complete
        /\ Len(clients[c].result.chunks) = 1
        /\ Len(clients[c].received) >= 2

\* C27: with concurrent clients, every chunk whose add_chunk returned True
\* is in the stream with a sequence number of its own, and a stream whose
\* complete_stream returned True is not active
C27_NoLostChunk ==
    /\ \A n \in store_hist.acked :
          \E i \in 1..Len(redis_stream.chunks) : redis_stream.chunks[i].data = n
    /\ \A i, j \in 1..Len(redis_stream.chunks) :
          i # j => redis_stream.chunks[i].sequence # redis_stream.chunks[j].sequence
    /\ store_hist.completed => redis_stream.status # "active"

(* ------------------- MCP providers and circuit breaker ------------------ *)
FAILURE_THRESHOLD == 5

RECOVERY_TIMEOUT == 60

\* seconds between two observations of the clock, and the last one modelled
MCP_TICK == 30

MaxMcpClock == 90

\* the longest run of failed provider calls followed
MaxMcpFailures == 6

\* registry order (initialize_providers)
McpOrder == <<"openai-gpt4", "openai-gpt35", "local-llama">>

\* CircuitBreaker._on_success
OnSuccess(cb) == [cb EXCEPT !.failure_count = 0, !.state = "CLOSED"]

\* CircuitBreaker._on_failure
OnFailure(cb, t) ==
    [cb EXCEPT !.failure_count = @ + 1,
               !.last_failure_time = t,
               !.state = IF cb.failure_count + 1 >= FAILURE_THRESHOLD
                         THEN "OPEN" ELSE @]

\* CircuitBreaker.call(func): rejected while OPEN within the recovery
\* timeout; else func is called, and only an exception raised by that call
\* itself counts as a failure
BreakerCall(cb, func_raises, t) ==
    IF cb.state = "OPEN" /\ ~(t - cb.last_failure_time > RECOVERY_TIMEOUT)
    THEN [cb |-> cb, rejected |-> TRUE]
    ELSE LET cb1 == IF cb.state = "OPEN" THEN [cb EXCEPT !.state = "HALF_OPEN"] ELSE cb
         IN [cb |-> IF func_raises THEN OnFailure(cb1, t) ELSE OnSuccess(cb1),
             rejected |-> FALSE]

\* how a call of provider.generate ends once awaited
GenerateOutcomes == {"success", "reports_failure", "raises"}

\* MCPWorker.call_provider: provider.generate is a coroutine function, so
\* the call made inside circuit_breaker.call only builds the coroutine and
\* never raises; the coroutine is awaited by the worker afterwards, and a
\* response with success = false, or an exception, ends in the worker's own
\* except branch
CallProvider(p, outcome) ==
    /\ mcp_failed[p] < MaxMcpFailures
    /\ LET b == BreakerCall(circuit_breaker[p], FALSE, mcp_clock)
       IN /\ circuit_breaker' = [circuit_breaker EXCEPT ![p] = b.cb]
          /\ mcp_failed' = [mcp_failed EXCEPT ![p] =
                IF ~b.rejected /\ outcome = "success" THEN 0 ELSE @ + 1]
    /\ UNCHANGED <<routerVars, notMcp, mcp_clock, routed>>

McpTick ==
    /\ mcp_clock < MaxMcpClock
    /\ mcp_clock' = mcp_clock + MCP_TICK
    /\ UNCHANGED <<routerVars, notMcp, circuit_breaker, mcp_failed, routed>>

\* ProviderManager._is_provider_healthy
IsProviderHealthy(p) == circuit_breaker[p].state # "OPEN"

\* _calculate_provider_score, with estimate_cost at 1000 output tokens:
\* gpt-4 costs 0.06 or more, gpt-3.5-turbo less than 0.01, local models 0
ProviderScore(p, priority) ==
    50 + (IF p = "local-llama" THEN 30 ELSE IF p = "openai-gpt35" THEN 20 ELSE 0)
       + (IF circuit_breaker[p].failure_count = 0 THEN 15 ELSE 0)
       + (IF p = "openai-gpt35" THEN 10 ELSE IF p = "local-llama" THEN 5 ELSE 0)
       + (IF priority > 80 /\ p = "openai-gpt4" THEN 20 ELSE 0)

\* the entries of a list of names that are in a set, in the list's order
Only(names, S) == LET Test(n) == n \in S IN SelectSeq(names, Test)

\* _select_best_provider: the first candidate with the highest score
SelectBest(candidates, priority) ==
    IF Len(candidates) = 1 THEN candidates[1]
    ELSE LET best == CHOOSE i \in 1..Len(candidates) :
                        \A j \in 1..Len(candidates) :
                            \/ ProviderScore(candidates[i], priority)
                                  > ProviderScore(candidates[j], priority)
                            \/ /\ ProviderScore(candidates[i], priority)
                                     = ProviderScore(candidates[j], priority)
                               /\ i <= j
         IN candidates[best]

\* ProviderManager.route_request; "None" when no provider is healthy
route_request(provider_hint, prefer_local, task_type, priority) ==
    LET available == Only(McpOrder, {p \in McpProviders : IsProviderHealthy(p)})
        locals == Only(available, {"local-llama"})
        code == Only(<<"openai-gpt4", "anthropic-opus", "anthropic-sonnet">>,
                     Range(available))
        workflow == Only(<<"anthropic-sonnet", "openai-gpt4", "openai-gpt35">>,
                         Range(available))
    IN IF available = << >> THEN "None"
       ELSE IF provider_hint \in Range(available) THEN provider_hint
       ELSE IF prefer_local /\ locals # << >> THEN SelectBest(locals, priority)
       ELSE IF task_type = "code" /\ priority > 70 /\ code # << >> THEN code[1]
       ELSE IF task_type = "workflow" /\ workflow # << >> THEN workflow[1]
       ELSE SelectBest(available, priority)

McpHints == {"None", "openai-gpt4", "local-llama"}

McpTaskTypes == {"chat", "code", "workflow"}

McpPriorities == {50, 90}

\* MCPWorker.select_provider
RouteRequest(provider_hint, prefer_local, task_type, priority) ==
    /\ routed' = route_request(provider_hint, prefer_local, task_type, priority)
    /\ UNCHANGED <<routerVars, notMcp, circuit_breaker, mcp_clock, mcp_failed>>

NextMcp ==
    \/ \E p \in McpProviders, outcome \in GenerateOutcomes : CallProvider(p, outcome)
    \/ McpTick
    \/ \E provider_hint \in McpHints, prefer_local \in BOOLEAN,
          task_type \in McpTaskTypes, priority \in McpPriorities :
            RouteRequest(provider_hint, prefer_local, task_type, priority)

SpecMcp == InitGarbled /\ [][NextMcp]_vars

\* C28: after failure_threshold consecutive failed provider calls made by
\* the worker through circuit_breaker.call the breaker is OPEN, and
\* route_request does not return a provider whose breaker is OPEN
C28_McpBreakerOpens ==
    /\ \A p \in McpProviders :
          mcp_failed[p] >= FAILURE_THRESHOLD => circuit_breaker[p].state = "OPEN"
    /\ routed \in McpProviders => circuit_breaker[routed].state # "OPEN"
====
